---- MODULE Spec2Model ----
(***************************************************************************)
(* A model of the website vulnerability analysis pipeline: the passive     *)
(* feature extractor, the three probes, the feature-to-text encoder, the   *)
(* top-3 selection of the classification adapter, the risk scorer, the     *)
(* recommendation engine and the orchestrator main() that sequences them.  *)
(*                                                                         *)
(* Python strings are TLA+ strings (TLC treats them as sequences of        *)
(* characters: Len, \o and SubSeq apply).  A Python dict is a sequence of  *)
(* <<key, value>> pairs in insertion order, as dict iteration observes it. *)
(***************************************************************************)
EXTENDS Integers, Sequences, FiniteSets, TLC

VARIABLES
    pc,                 \* which function is running / the orchestrator's position
    features,           \* the feature dict (generate_recommendations, features_to_text, main)
    predicted_label,    \* the label handed to assess_risk_level / generate_recommendations
    recommendations,    \* generate_recommendations' return value
    confidence,         \* assess_risk_level's argument, in hundredths
    risk_level,         \* assess_risk_level's return value
    prev_call,          \* the previous assess_risk_level call: [confidence, label, risk]
    other_features,     \* a second feature dict handed to features_to_text
    combined_text,      \* features_to_text's local: the base text, before the hints
    vuln_keywords,      \* features_to_text's local: the hint phrases collected
    text,               \* features_to_text's return value
    other_text,         \* features_to_text's return value for other_features
    int_to_label,       \* the label map: label index -> label
    predictions,        \* model.predict(X)[0]: a probability (in hundredths) per label index
    top_3_indices,      \* predict_vulnerability's local
    result,             \* predict_vulnerability's return value, extended by main
    args,               \* main: the parsed command line, [url]
    site,               \* the site the URL leads to: an index into Sites
    files,              \* the state of the model, tokenizer and label-map files
    dir_ok,             \* whether the output directories can be created
    session,            \* main: the HTTP session, None before setup_session
    faults_left,        \* how many more network faults this run may meet
    xss_results,        \* main: check_xss's return value
    ssl_results,        \* main: check_ssl's return value
    script_results,     \* main: check_script_issues's return value
    indicators,         \* check_xss's local: the findings collected so far
    form_index,         \* check_xss's local: the position of its loop over the forms
    ssl_issues,         \* check_ssl's local: the issues list
    ssl_early,          \* which early return check_ssl took ("" for none)
    script_indicators,  \* check_script_issues's local: the findings collected
    raised,             \* the exceptions raised so far: [in, exc]
    net_log,            \* the network operations issued so far: [by, op, target, data]
    exit_code,          \* the process's exit status, None while it runs
    csv_report,         \* the main row save_csv_report wrote, None if not written
    pdf_report          \* the technical details save_pdf_report wrote, None if not written

recVars == <<recommendations>>
riskVars == <<confidence, risk_level, prev_call>>
encVars == <<other_features, combined_text, vuln_keywords, text, other_text>>
predVars == <<int_to_label, predictions, top_3_indices, result>>

envVars == <<site, files, dir_ok>>
probeVars ==
    <<xss_results, ssl_results, script_results, indicators, form_index,
      ssl_issues, ssl_early, script_indicators>>
logVars == <<raised, net_log, faults_left>>
reportVars == <<csv_report, pdf_report>>
mainVars == <<args, envVars, session, probeVars, logVars, exit_code, reportVars>>

vars == <<pc, features, predicted_label, recVars, riskVars, encVars, predVars, mainVars>>

-----------------------------------------------------------------------------
(* Strings *)

UpperLetters == "ABCDEFGHIJKLMNOPQRSTUVWXYZ"
LowerLetters == "abcdefghijklmnopqrstuvwxyz"

Chars(s) == {SubSeq(s, i, i) : i \in 1..Len(s)}

\* the lower-case letter of each upper-case letter
LowerOf ==
    [c \in Chars(UpperLetters) |->
        LET i == CHOOSE j \in 1..Len(UpperLetters) : SubSeq(UpperLetters, j, j) = c
        IN  SubSeq(LowerLetters, i, i)]

\* str.lower() on one character
LowerChar(c) == IF c \in DOMAIN LowerOf THEN LowerOf[c] ELSE c

\* str.lower(): character by character, halving the string
RECURSIVE Lower(_)
Lower(s) ==
    IF Len(s) = 0 THEN ""
    ELSE IF Len(s) = 1 THEN LowerChar(s)
    ELSE LET h == Len(s) \div 2
         IN  Lower(SubSeq(s, 1, h)) \o Lower(SubSeq(s, h + 1, Len(s)))

\* Python's `sub in s` on strings
Contains(s, sub) ==
    \E i \in 1..(Len(s) - Len(sub) + 1) : SubSeq(s, i, i + Len(sub) - 1) = sub

\* str.startswith
StartsWith(s, prefix) ==
    Len(prefix) <= Len(s) /\ SubSeq(s, 1, Len(prefix)) = prefix

\* sep.join(parts)
RECURSIVE Join(_, _)
Join(parts, sep) ==
    IF Len(parts) = 0 THEN ""
    ELSE IF Len(parts) = 1 THEN parts[1]
    ELSE parts[1] \o sep \o Join(Tail(parts), sep)

\* list[:n]
Take(s, n) == SubSeq(s, 1, IF Len(s) < n THEN Len(s) ELSE n)

-----------------------------------------------------------------------------
(* Dicts: sequences of <<key, value>> in insertion order *)

Keys(d) == {d[i][1] : i \in 1..Len(d)}

\* `k in d`
HasKey(d, k) == k \in Keys(d)

\* d.get(k, default)
Get(d, k, default) ==
    IF HasKey(d, k)
    THEN d[CHOOSE i \in 1..Len(d) : d[i][1] = k][2]
    ELSE default

\* d[k] = v: an existing key keeps its position, a new key goes last
Put(d, k, v) ==
    IF HasKey(d, k)
    THEN [i \in 1..Len(d) |-> IF d[i][1] = k THEN <<k, v>> ELSE d[i]]
    ELSE Append(d, <<k, v>>)

-----------------------------------------------------------------------------
(* re.search.  A pattern is its source text and a sequence of items: a literal, or a *)
(* repeated character class [cls, min, max] (max = -1: unbounded).  Only whether a   *)
(* match exists is modelled, so greedy and lazy repetition coincide.                 *)

Digits == "0123456789"

InClass(c, cls) ==
    CASE cls = "any" -> c # "\n"                       \* .
      [] cls = "space" -> c \in {" ", "\t", "\n", "\r"}  \* \s
      [] cls = "notgt" -> c # ">"                       \* [^>]
      [] cls = "digit" -> c \in Chars(Digits)           \* \d
      [] cls = "digitdot" -> c \in Chars(Digits) \cup {"."}   \* [\d.]
      [] cls = "quote" -> c \in {"\"", "'"}             \* ["\']

Lit(s) == [kind |-> "lit", s |-> s]
Rep(cls, min, max) == [kind |-> "rep", cls |-> cls, min |-> min, max |-> max]

\* whether items k.. of the pattern match s from position i on
RECURSIVE MatchAt(_, _, _, _)
MatchAt(s, i, items, k) ==
    IF k > Len(items) THEN TRUE
    ELSE LET it == items[k]
         IN  IF it.kind = "lit"
             THEN /\ i + Len(it.s) - 1 <= Len(s)
                  /\ SubSeq(s, i, i + Len(it.s) - 1) = it.s
                  /\ MatchAt(s, i + Len(it.s), items, k + 1)
             ELSE \E n \in it.min..(Len(s) - i + 1) :
                      /\ it.max = -1 \/ n <= it.max
                      /\ \A j \in i..(i + n - 1) : InClass(SubSeq(s, j, j), it.cls)
                      /\ MatchAt(s, i + n, items, k + 1)

\* re.search(pattern, s) is not None
Search(items, s) == \E i \in 1..(Len(s) + 1) : MatchAt(s, i, items, 1)

-----------------------------------------------------------------------------
(* The pattern tables *)

\* xss_checker.py
xss_patterns ==
    << [src |-> "<script.*?>", items |-> <<Lit("<script"), Rep("any", 0, -1), Lit(">")>>],
       [src |-> "javascript:", items |-> <<Lit("javascript:")>>],
       [src |-> "onerror\\s*=", items |-> <<Lit("onerror"), Rep("space", 0, -1), Lit("=")>>],
       [src |-> "onload\\s*=", items |-> <<Lit("onload"), Rep("space", 0, -1), Lit("=")>>],
       [src |-> "alert\\s*\\(", items |-> <<Lit("alert"), Rep("space", 0, -1), Lit("(")>>],
       [src |-> "document\\.cookie", items |-> <<Lit("document.cookie")>>],
       [src |-> "<img[^>]+src\\s*=", items |-> <<Lit("<img"), Rep("notgt", 1, -1), Lit("src"), Rep("space", 0, -1), Lit("=")>>],
       [src |-> "<iframe.*?>", items |-> <<Lit("<iframe"), Rep("any", 0, -1), Lit(">")>>],
       [src |-> "onclick\\s*=", items |-> <<Lit("onclick"), Rep("space", 0, -1), Lit("=")>>],
       [src |-> "onmouseover\\s*=", items |-> <<Lit("onmouseover"), Rep("space", 0, -1), Lit("=")>>],
       [src |-> "onfocus\\s*=", items |-> <<Lit("onfocus"), Rep("space", 0, -1), Lit("=")>>],
       [src |-> "oninput\\s*=", items |-> <<Lit("oninput"), Rep("space", 0, -1), Lit("=")>>],
       [src |-> "onchange\\s*=", items |-> <<Lit("onchange"), Rep("space", 0, -1), Lit("=")>>] >>

\* script_issues_checker.py
script_patterns ==
    << [src |-> "<script[^>]*src=[\"\\']http:", items |-> <<Lit("<script"), Rep("notgt", 0, -1), Lit("src="), Rep("quote", 1, 1), Lit("http:")>>],
       [src |-> "eval\\(", items |-> <<Lit("eval(")>>],
       [src |-> "document\\.write\\(", items |-> <<Lit("document.write(")>>],
       [src |-> "innerHTML\\s*=", items |-> <<Lit("innerHTML"), Rep("space", 0, -1), Lit("=")>>] >>

\* feature_extractor.py: vulnerability class -> patterns, in dict order
vuln_patterns ==
    << [vuln_type |-> "sql_injection",
        patterns |->
          << [src |-> "mysql_error", items |-> <<Lit("mysql_error")>>],
             [src |-> "ora-\\d{5}", items |-> <<Lit("ora-"), Rep("digit", 5, 5)>>],
             [src |-> "microsoft ole db provider", items |-> <<Lit("microsoft ole db provider")>>],
             [src |-> "unclosed quotation mark", items |-> <<Lit("unclosed quotation mark")>>],
             [src |-> "syntax error.*query", items |-> <<Lit("syntax error"), Rep("any", 0, -1), Lit("query")>>] >>],
       [vuln_type |-> "xss",
        patterns |->
          << [src |-> "<script.*?>", items |-> <<Lit("<script"), Rep("any", 0, -1), Lit(">")>>],
             [src |-> "javascript:", items |-> <<Lit("javascript:")>>],
             [src |-> "onerror=", items |-> <<Lit("onerror=")>>],
             [src |-> "onload=", items |-> <<Lit("onload=")>>],
             [src |-> "alert\\(", items |-> <<Lit("alert(")>>],
             [src |-> "document\\.cookie", items |-> <<Lit("document.cookie")>>] >>],
       [vuln_type |-> "path_traversal",
        patterns |->
          << [src |-> "\\.\\.//", items |-> <<Lit("..//")>>],
             [src |-> "\\.\\.\\\\", items |-> <<Lit("..\\")>>],
             [src |-> "%2e%2e%2f", items |-> <<Lit("%2e%2e%2f")>>],
             [src |-> "%2e%2e\\\\", items |-> <<Lit("%2e%2e\\")>>] >>],
       [vuln_type |-> "server_disclosure",
        patterns |->
          << [src |-> "server:\\s*apache/[\\d.]+", items |-> <<Lit("server:"), Rep("space", 0, -1), Lit("apache/"), Rep("digitdot", 1, -1)>>],
             [src |-> "server:\\s*nginx/[\\d.]+", items |-> <<Lit("server:"), Rep("space", 0, -1), Lit("nginx/"), Rep("digitdot", 1, -1)>>],
             [src |-> "server:\\s*microsoft-iis/[\\d.]+", items |-> <<Lit("server:"), Rep("space", 0, -1), Lit("microsoft-iis/"), Rep("digitdot", 1, -1)>>],
             [src |-> "x-powered-by:", items |-> <<Lit("x-powered-by:")>>] >>],
       [vuln_type |-> "debug_info",
        patterns |->
          << [src |-> "stack trace", items |-> <<Lit("stack trace")>>],
             [src |-> "debug mode", items |-> <<Lit("debug mode")>>],
             [src |-> "exception.*?at\\s", items |-> <<Lit("exception"), Rep("any", 0, -1), Lit("at"), Rep("space", 1, 1)>>],
             [src |-> "warning:", items |-> <<Lit("warning:")>>],
             [src |-> "notice:", items |-> <<Lit("notice:")>>],
             [src |-> "fatal error", items |-> <<Lit("fatal error")>>] >>] >>

-----------------------------------------------------------------------------
(* recommendation_generator.py *)

MaxRecommendations == 5

RecHeaders == "Implement security headers (X-Frame-Options, CSP, HSTS)"
RecServer == "Consider hiding server version information"
RecForms == "Ensure all forms use HTTPS and proper validation"
RecInjection ==
    << "Use parameterized queries to prevent SQL injection",
       "Implement input validation and sanitization",
       "Use ORM frameworks with built-in protection" >>
RecXss ==
    << "Implement Content Security Policy (CSP)",
       "Sanitize all user inputs before output",
       "Use HTTPOnly and Secure flags for cookies" >>
RecAuth ==
    << "Implement multi-factor authentication",
       "Use strong password policies",
       "Implement proper session management" >>
RecBuffer ==
    << "Implement proper input length validation",
       "Use safe string handling functions",
       "Enable compiler-based buffer overflow protections" >>
RecEscape == "Escape all user-generated content to prevent XSS"
RecCiphers == "Upgrade to stronger SSL ciphers and TLS 1.3"
RecHttpsScripts == "Ensure all scripts are loaded over HTTPS"

\* `if cond: recommendations.append(x)` / `.extend(xs)`
ExtendIf(recs, cond, xs) == IF cond THEN recs \o xs ELSE recs

collect_recommendations(f, predicted_vulnerability) ==
    LET vuln_lower == Lower(predicted_vulnerability)
        r1 == ExtendIf(<<>>, ~HasKey(f, "security_headers") \/ Get(f, "security_headers", "") = "",
                       <<RecHeaders>>)
        r2 == ExtendIf(r1, Contains(Lower(Get(f, "headers", "")), "server"), <<RecServer>>)
        r3 == ExtendIf(r2, Contains(Lower(Get(f, "forms", "")), "form"), <<RecForms>>)
        r4 == ExtendIf(r3, Contains(vuln_lower, "injection") \/ Contains(vuln_lower, "sql"),
                       RecInjection)
        r5 == ExtendIf(r4, Contains(vuln_lower, "xss") \/ Contains(vuln_lower, "scripting"),
                       RecXss)
        r6 == ExtendIf(r5, Contains(vuln_lower, "authentication") \/ Contains(vuln_lower, "access"),
                       RecAuth)
        r7 == ExtendIf(r6, Contains(vuln_lower, "buffer") \/ Contains(vuln_lower, "overflow"),
                       RecBuffer)
        r8 == ExtendIf(r7, HasKey(f, "xss_check")
                           /\ Contains(Lower(Get(f, "xss_check", "")), "detected"),
                       <<RecEscape>>)
        r9 == ExtendIf(r8, HasKey(f, "ssl_check")
                           /\ Contains(Lower(Get(f, "ssl_check", "")), "weak"),
                       <<RecCiphers>>)
        r10 == ExtendIf(r9, HasKey(f, "script_check")
                            /\ Contains(Lower(Get(f, "script_check", "")), "mixed content"),
                        <<RecHttpsScripts>>)
    IN  r10

\* a variant that returns everything collected
generate_recommendations_untruncated(f, predicted_vulnerability) ==
    collect_recommendations(f, predicted_vulnerability)

generate_recommendations(f, predicted_vulnerability) ==
    Take(collect_recommendations(f, predicted_vulnerability), MaxRecommendations)

-----------------------------------------------------------------------------
(* risk_assessor.py; confidences are counted in hundredths *)

LowBelow == 30
MediumBelow == 60
HighBelow == 80

\* a variant whose thresholds are closed on the right
assess_risk_level_inclusive(c, label) ==
    IF c <= LowBelow THEN "LOW"
    ELSE IF c <= MediumBelow THEN "MEDIUM"
    ELSE IF c <= HighBelow THEN "HIGH"
    ELSE "CRITICAL"

assess_risk_level(c, label) ==
    IF c < LowBelow THEN "LOW"
    ELSE IF c < MediumBelow THEN "MEDIUM"
    ELSE IF c < HighBelow THEN "HIGH"
    ELSE "CRITICAL"

-----------------------------------------------------------------------------
(* feature_extractor.py: features_to_text *)

\* text_parts: one "<key> <value>" per item whose value is truthy, in dict order
RECURSIVE text_parts_keep_empty(_)
text_parts_keep_empty(d) ==
    IF Len(d) = 0 THEN <<>>
    ELSE <<Head(d)[1] \o " " \o Head(d)[2]>> \o text_parts_keep_empty(Tail(d))

RECURSIVE text_parts(_)
text_parts(d) ==
    IF Len(d) = 0 THEN <<>>
    ELSE IF Head(d)[2] # ""
         THEN <<Head(d)[1] \o " " \o Head(d)[2]>> \o text_parts(Tail(d))
         ELSE text_parts(Tail(d))

base_text(d) == Join(text_parts(d), " ")

HintClusters ==
    << [words |-> <<"sql", "database", "mysql", "error">>,
        phrase |-> "database injection vulnerability"],
       [words |-> <<"script", "javascript", "xss">>,
        phrase |-> "cross site scripting vulnerability"],
       [words |-> <<"upload", "file", "path">>,
        phrase |-> "file inclusion vulnerability"],
       [words |-> <<"admin", "login", "authentication">>,
        phrase |-> "authentication bypass vulnerability"] >>

\* any(word in content_lower for word in words)
AnyWordIn(content_lower, words) ==
    \E i \in 1..Len(words) : Contains(content_lower, words[i])

\* a variant that appends the phrase once per matching word
RECURSIVE collect_hints_per_word(_, _)
collect_hints_per_word(content_lower, clusters) ==
    IF Len(clusters) = 0 THEN <<>>
    ELSE LET c == Head(clusters)
             hits == SelectSeq(c.words, LAMBDA w : Contains(content_lower, w))
         IN  [i \in 1..Len(hits) |-> c.phrase]
             \o collect_hints_per_word(content_lower, Tail(clusters))

\* the four `if any(...): vuln_keywords.append(...)` statements, in order
RECURSIVE collect_hints(_, _)
collect_hints(content_lower, clusters) ==
    IF Len(clusters) = 0 THEN <<>>
    ELSE (IF AnyWordIn(content_lower, Head(clusters).words)
          THEN <<Head(clusters).phrase>> ELSE <<>>)
         \o collect_hints(content_lower, Tail(clusters))

hint_phrases(base) == collect_hints(Lower(base), HintClusters)

features_to_text(d) ==
    LET base == base_text(d)
        kws == hint_phrases(base)
    IN  IF kws # <<>> THEN base \o " " \o Join(kws, " ") ELSE base

-----------------------------------------------------------------------------
(* predictor.py: predict_vulnerability; label indices are 0-based *)

TopK == 3

Max(S) == CHOOSE x \in S : \A y \in S : y <= x

\* np.argmax: the first index holding the maximum
argmax(p) ==
    CHOOSE i \in DOMAIN p :
        /\ p[i] = Max({p[j] : j \in DOMAIN p})
        /\ \A j \in DOMAIN p : j < i => p[j] < p[i]

\* np.argsort with the default kind ('quicksort', which numpy documents as not stable):
\* every arrangement of the indices in ascending order of value; which one among equal
\* values is the sort's choice
ArgSorts(p) ==
    { o \in [1..Cardinality(DOMAIN p) -> DOMAIN p] :
        /\ \A i, j \in DOMAIN o : i # j => o[i] # o[j]
        /\ \A i, j \in DOMAIN o : i < j => p[o[i]] <= p[o[j]] }

\* seq[-n:]
LastN(s, n) == SubSeq(s, IF Len(s) > n THEN Len(s) - n + 1 ELSE 1, Len(s))

Reverse(s) == [i \in 1..Len(s) |-> s[Len(s) + 1 - i]]

\* int_to_label.get(idx, default)
LabelOf(labels, idx, default) == IF idx \in DOMAIN labels THEN labels[idx] ELSE default

\* np.argsort(predictions[0])[-3:][::-1], given the argsort
top_3(order) == Reverse(LastN(order, TopK))

predict_vulnerability(url, labels, p, order) ==
    LET predicted_class_idx == argmax(p)
        top == top_3(order)
    IN  [ url |-> url,
          predicted_vulnerability |-> LabelOf(labels, predicted_class_idx, "Unknown"),
          confidence |-> p[predicted_class_idx],
          top_3_predictions |->
              [i \in 1..Len(top) |->
                  <<LabelOf(labels, top[i], "Class_" \o ToString(top[i])), p[top[i]]>>],
          extracted_features |-> <<>> ]

-----------------------------------------------------------------------------
(* urllib.parse.urlparse, as far as the pipeline reads it *)

\* the first position from `from` on whose character is in cs, or Len(s) + 1
IndexOfAny(s, cs, from) ==
    LET hits == {i \in from..Len(s) : SubSeq(s, i, i) \in cs}
    IN  IF hits = {} THEN Len(s) + 1 ELSE CHOOSE i \in hits : \A j \in hits : i <= j

DigitValue(c) == CHOOSE v \in 0..9 : SubSeq(Digits, v + 1, v + 1) = c

\* int(s) of a non-empty string of digits
RECURSIVE ToInt(_)
ToInt(s) ==
    IF Len(s) = 0 THEN 0
    ELSE 10 * ToInt(SubSeq(s, 1, Len(s) - 1)) + DigitValue(SubSeq(s, Len(s), Len(s)))

\* the exception urlsplit raises; request: whether it is a requests.exceptions.RequestException
InvalidIPv6 == [type |-> "ValueError", msg |-> "Invalid IPv6 URL", request |-> FALSE]

\* scheme://netloc/path?query#fragment; ok is FALSE where urlsplit raises ValueError
urlparse(u) ==
    LET colon == IndexOfAny(u, {":"}, 1)
        rest == SubSeq(u, colon + 1, Len(u))
        has_netloc == StartsWith(rest, "//")
        delim == IF has_netloc THEN IndexOfAny(rest, {"/", "?", "#"}, 3) ELSE 1
        netloc == IF has_netloc THEN SubSeq(rest, 3, delim - 1) ELSE ""
        after == SubSeq(rest, delim, Len(rest))
        no_fragment == SubSeq(after, 1, IndexOfAny(after, {"#"}, 1) - 1)
        qmark == IndexOfAny(no_fragment, {"?"}, 1)
    IN  [ ok |-> Contains(netloc, "[") <=> Contains(netloc, "]"),
          scheme |-> Lower(SubSeq(u, 1, colon - 1)),
          netloc |-> netloc,
          path |-> SubSeq(no_fragment, 1, qmark - 1),
          query |-> SubSeq(no_fragment, qmark + 1, Len(no_fragment)) ]

\* parsed_url.hostname: the lower-cased netloc without its port
hostname(netloc) == Lower(SubSeq(netloc, 1, IndexOfAny(netloc, {":"}, 1) - 1))

\* parsed_url.port or 443
DefaultTlsPort == 443
port_or_default(netloc) ==
    LET colon == IndexOfAny(netloc, {":"}, 1)
    IN  IF colon >= Len(netloc) THEN DefaultTlsPort
        ELSE ToInt(SubSeq(netloc, colon + 1, Len(netloc)))

-----------------------------------------------------------------------------
(* BeautifulSoup's view of a page.  A page is a sequence of elements            *)
(* [tag, attrs, text, children]; the served body is its serialisation, so the   *)
(* parser's result on that body is the page itself.                             *)

El(tag, attrs, txt, children) ==
    [tag |-> tag, attrs |-> attrs, text |-> txt, children |-> children]

VoidTags == { "img", "input", "br" }

RECURSIVE RenderAttrs(_)
RenderAttrs(attrs) ==
    IF Len(attrs) = 0 THEN ""
    ELSE " " \o Head(attrs)[1] \o "=\"" \o Head(attrs)[2] \o "\"" \o RenderAttrs(Tail(attrs))

RenderLeaf(e) ==
    "<" \o e.tag \o RenderAttrs(e.attrs) \o ">" \o
    (IF e.tag \in VoidTags THEN "" ELSE e.text \o "</" \o e.tag \o ">")

RECURSIVE RenderLeaves(_)
RenderLeaves(es) ==
    IF Len(es) = 0 THEN "" ELSE RenderLeaf(Head(es)) \o RenderLeaves(Tail(es))

RenderEl(e) ==
    "<" \o e.tag \o RenderAttrs(e.attrs) \o ">" \o
    (IF e.tag \in VoidTags THEN ""
     ELSE e.text \o RenderLeaves(e.children) \o "</" \o e.tag \o ">")

RECURSIVE Render(_)
Render(page) == IF Len(page) = 0 THEN "" ELSE RenderEl(Head(page)) \o Render(Tail(page))

RECURSIVE Concat(_)
Concat(ss) == IF Len(ss) = 0 THEN <<>> ELSE Head(ss) \o Concat(Tail(ss))

\* every element of the page in document order
Descendants(page) ==
    Concat([i \in 1..Len(page) |-> <<page[i]>> \o page[i].children])

\* soup.find_all(tags)
find_all(page, tags) == SelectSeq(Descendants(page), LAMBDA e : e.tag \in tags)

\* form.find_all(tags)
find_in(form, tags) == SelectSeq(form.children, LAMBDA e : e.tag \in tags)

\* the tags whose strings html.parser hands over as Script, Stylesheet or
\* TemplateString, which get_text leaves out
HiddenTextTags == { "script", "style", "template" }

\* soup.get_text(separator=' ', strip=True): the texts of the page have no
\* surrounding blanks, so stripping leaves them as they are
get_text(page) ==
    LET shown == SelectSeq(Descendants(page),
                           LAMBDA e : e.tag \notin HiddenTextTags /\ e.text # "")
    IN  Join([i \in 1..Len(shown) |-> shown[i].text], " ")

Whitespace == { " ", "\t", "\n", "\r" }

\* str.strip()
RECURSIVE Strip(_)
Strip(s) ==
    IF Len(s) = 0 THEN s
    ELSE IF SubSeq(s, 1, 1) \in Whitespace THEN Strip(SubSeq(s, 2, Len(s)))
    ELSE IF SubSeq(s, Len(s), Len(s)) \in Whitespace THEN Strip(SubSeq(s, 1, Len(s) - 1))
    ELSE s

-----------------------------------------------------------------------------
(* Exceptions are records [type, msg, request]: msg is str(e), request tells    *)
(* whether the type derives from requests.exceptions.RequestException.          *)

Exc(type, msg, request) == [type |-> type, msg |-> msg, request |-> request]

\* an optional value: None, or the one-element sequence of the value
None == <<>>
Some(x) == <<x>>

\* the findings of a regex table on a body, in table order
RECURSIVE PatternFindings(_, _, _)
PatternFindings(patterns, content_lower, prefix) ==
    IF Len(patterns) = 0 THEN <<>>
    ELSE (IF Search(Head(patterns).items, content_lower)
          THEN <<prefix \o Head(patterns).src>> ELSE <<>>)
         \o PatternFindings(Tail(patterns), content_lower, prefix)

\* dict.get on a CaseInsensitiveDict
GetCI(d, k, default) ==
    LET hits == {i \in 1..Len(d) : Lower(d[i][1]) = k}
    IN  IF hits = {} THEN default ELSE d[CHOOSE i \in hits : TRUE][2]

-----------------------------------------------------------------------------
(* script_issues_checker.py *)

NoScriptIssues == "No script issues detected"

script_error(e) == "Script issues check error: " \o e.msg

mixed_content_any_scheme(u, page) ==
    LET scripts == SelectSeq(find_all(page, {"script"}), LAMBDA s : HasKey(s.attrs, "src"))
        http == SelectSeq(scripts, LAMBDA s : StartsWith(Get(s.attrs, "src", ""), "http:"))
    IN  [i \in 1..Len(http) |-> "Mixed content: HTTP script " \o Get(http[i].attrs, "src", "")]

mixed_content(u, page) ==
    IF StartsWith(u, "https:")
    THEN LET scripts == SelectSeq(find_all(page, {"script"}),
                                  LAMBDA s : HasKey(s.attrs, "src"))
             http == SelectSeq(scripts, LAMBDA s : StartsWith(Get(s.attrs, "src", ""), "http:"))
         IN  [i \in 1..Len(http) |-> "Mixed content: HTTP script " \o Get(http[i].attrs, "src", "")]
    ELSE <<>>

script_indicators_of(u, content, page) ==
    PatternFindings(script_patterns, Lower(content), "Script issue pattern detected: ")
    \o mixed_content(u, page)

script_summary_unguarded(found) == Join(found, " ")

script_summary(found) == IF Len(found) > 0 THEN Join(found, " ") ELSE NoScriptIssues

-----------------------------------------------------------------------------
(* xss_checker.py *)

NoXssIssues == "No XSS issues detected"

test_payload == "<svg/onload=alert('XSS_')>"

xss_error(e) == "XSS check error: " \o e.msg

HandlerTags == { "a", "img", "button", "input" }
SuspiciousTypes == { "text", "search", "password" }

handler_findings(page) ==
    LET tags == find_all(page, HandlerTags)
        of(tag) == LET on == SelectSeq(tag.attrs, LAMBDA a : StartsWith(Lower(a[1]), "on"))
                   IN  [i \in 1..Len(on) |->
                           "Inline JavaScript event handler found: " \o on[i][1]]
    IN  Concat([i \in 1..Len(tags) |-> of(tags[i])])

field_findings(page) ==
    LET forms == find_all(page, {"form"})
        of(form) ==
            LET hit == SelectSeq(find_in(form, {"input", "textarea"}),
                                 LAMBDA field : Get(field.attrs, "type", "") \in SuspiciousTypes)
            IN  [i \in 1..Len(hit) |-> "Unprotected user input detected (text/search/password)"]
    IN  Concat([i \in 1..Len(forms) |-> of(forms[i])])

anchor_findings(page) ==
    LET hit == SelectSeq(find_all(page, {"a"}),
                         LAMBDA a : /\ HasKey(a.attrs, "href")
                                    /\ StartsWith(Lower(Strip(Get(a.attrs, "href", ""))),
                                                  "javascript:"))
    IN  [i \in 1..Len(hit) |-> "javascript: URI detected in anchor tag"]

\* the static and the DOM layer
passive_indicators(content, page) ==
    PatternFindings(xss_patterns, Lower(content), "Pattern detected: ")
    \o handler_findings(page) \o field_findings(page) \o anchor_findings(page)

\* the request a form is tested with; params is empty when no input has a name
form_request(form, u) ==
    LET named == SelectSeq(find_in(form, {"input"}),
                           LAMBDA inp : Get(inp.attrs, "name", "") # "")
        names == [i \in 1..Len(named) |-> Get(named[i].attrs, "name", "")]
        collect[i \in 0..Len(names)] ==
            IF i = 0 THEN <<>> ELSE Put(collect[i - 1], names[i], test_payload)
    IN  [ method |-> IF Lower(Get(form.attrs, "method", "get")) = "post" THEN "post" ELSE "get",
          url |-> Get(form.attrs, "action", u),
          params |-> collect[Len(names)] ]

static_test_url(u) ==
    IF ~Contains(u, "?") THEN u \o "?q=" \o test_payload ELSE u \o "&q=" \o test_payload

reflected_in_form(action) == "Potential reflected XSS detected in form (" \o action \o ")"
reflected_in_q == "Potential reflected XSS via ?q= param"

\* the orders in which a set of strings can be iterated
Orders(S) ==
    {o \in [1..Cardinality(S) -> S] : \A i, j \in 1..Cardinality(S) : o[i] = o[j] => i = j}

Range(s) == {s[i] : i \in 1..Len(s)}

\* '; '.join(set(indicators)) under each iteration order of the set
xss_summaries(found) ==
    IF Len(found) > 0
    THEN {"Possible XSS risk(s) detected: " \o Join(o, "; ") : o \in Orders(Range(found))}
    ELSE {NoXssIssues}

-----------------------------------------------------------------------------
(* ssl_checker.py *)

NoSslIssues == "No SSL issues detected"
SslTimedOut == "SSL check timed out (connection took too long)"
SslNoCertificate == "SSL certificate data unavailable"
SslNoExpiry == "SSL certificate expiration data missing"

ssl_error(e) == "SSL check error: " \o e.msg

ExpiryWarningDays == 30
AcceptedVersions == { "TLSv1.2", "TLSv1.3" }

Months == << "Jan", "Feb", "Mar", "Apr", "May", "Jun",
             "Jul", "Aug", "Sep", "Oct", "Nov", "Dec" >>

IsNumber(s) == Len(s) > 0 /\ Chars(s) \subseteq Chars(Digits)

\* str.split(): the maximal runs of non-blank characters
RECURSIVE Words(_)
Words(s) ==
    LET start == IndexOfAny(s, Chars(s) \ Whitespace, 1)
        stop == IndexOfAny(s, Whitespace, start)
    IN  IF start > Len(s) THEN <<>>
        ELSE <<SubSeq(s, start, stop - 1)>> \o Words(SubSeq(s, stop, Len(s)))

\* days since 1970-01-01 of a date of the proleptic Gregorian calendar
DaysFromCivil(y, m, d) ==
    LET yy == IF m <= 2 THEN y - 1 ELSE y
        era == yy \div 400
        yoe == yy - era * 400
        mp == (m + 9) % 12
        doy == (153 * mp + 2) \div 5 + d - 1
        doe == yoe * 365 + yoe \div 4 - yoe \div 100 + doy
    IN  era * 146097 + doe - 719468

Seconds(dt) ==
    DaysFromCivil(dt.year, dt.month, dt.day) * 86400 + dt.hour * 3600 + dt.minute * 60 + dt.second

\* datetime.strptime(s, '%b %d %H:%M:%S %Y %Z'); ok is FALSE where it raises ValueError
strptime(s) ==
    LET w == Words(s)
        wellformed ==
            /\ Len(w) = 5
            /\ \E m \in 1..12 : Lower(Months[m]) = Lower(w[1])
            /\ IsNumber(w[2]) /\ Len(w[2]) <= 2
            /\ Len(w[3]) = 8 /\ SubSeq(w[3], 3, 3) = ":" /\ SubSeq(w[3], 6, 6) = ":"
            /\ IsNumber(SubSeq(w[3], 1, 2)) /\ IsNumber(SubSeq(w[3], 4, 5))
            /\ IsNumber(SubSeq(w[3], 7, 8))
            /\ IsNumber(w[4]) /\ Len(w[4]) = 4
            /\ w[5] \in { "GMT", "UTC" }
        dt == [ year |-> ToInt(w[4]),
                month |-> CHOOSE m \in 1..12 : Lower(Months[m]) = Lower(w[1]),
                day |-> ToInt(w[2]),
                hour |-> ToInt(SubSeq(w[3], 1, 2)),
                minute |-> ToInt(SubSeq(w[3], 4, 5)),
                second |-> ToInt(SubSeq(w[3], 7, 8)) ]
    IN  IF wellformed /\ dt.day \in 1..31 /\ dt.hour < 24 /\ dt.minute < 60 /\ dt.second < 62
        THEN [ok |-> TRUE, value |-> dt]
        ELSE [ok |-> FALSE]

\* (expiry_date - now).days: timedelta.days rounds towards minus infinity
days_between(expiry, now) ==
    LET diff == Seconds(expiry) - Seconds(now)
    IN  IF diff >= 0 THEN diff \div 86400 ELSE -((-diff + 86399) \div 86400)

\* str(n) of an integer
RECURSIVE NatToStr(_)
NatToStr(n) ==
    IF n < 10 THEN SubSeq(Digits, n + 1, n + 1)
    ELSE NatToStr(n \div 10) \o SubSeq(Digits, (n % 10) + 1, (n % 10) + 1)

IntToStr(n) == IF n < 0 THEN "-" \o NatToStr(-n) ELSE NatToStr(n)

\* the issues list built once the certificate's expiry date has been parsed
ssl_issues_of(days_to_expiry, cipher_info, version) ==
    (IF days_to_expiry < ExpiryWarningDays
     THEN <<"SSL certificate expires in " \o IntToStr(days_to_expiry) \o " days">> ELSE <<>>)
    \o (IF cipher_info # None /\ (Contains(cipher_info[1][1], "RC4") \/ Contains(cipher_info[1][1], "3DES"))
        THEN <<"Weak cipher detected: " \o cipher_info[1][1]>> ELSE <<>>)
    \o (IF version # None /\ version[1] \notin AcceptedVersions
        THEN <<"Insecure TLS version: " \o version[1]>> ELSE <<>>)

ssl_summary(found) == IF Len(found) > 0 THEN Join(found, " ") ELSE NoSslIssues

\* check_ssl on a peer that completed the handshake: the returned string, the
\* issues collected, and the early return taken ("" when the checks ran through)
inspect_peer(tls, now) ==
    IF tls.cert = None
    THEN [out |-> SslNoCertificate, issues |-> <<>>, early |-> "no_certificate"]
    ELSE IF ~HasKey(tls.cert[1], "notAfter")
    THEN [out |-> SslNoExpiry, issues |-> <<>>, early |-> "no_expiry"]
    ELSE LET expiry_date_str == Get(tls.cert[1], "notAfter", "")
             expiry_date == strptime(expiry_date_str)
         IN  IF ~expiry_date.ok
             THEN [ out |-> "Invalid expiration date format: " \o expiry_date_str,
                    issues |-> <<>>, early |-> "bad_date" ]
             ELSE LET found == ssl_issues_of(days_between(expiry_date.value, now),
                                             tls.cipher, tls.version)
                  IN  [out |-> ssl_summary(found), issues |-> found, early |-> ""]

-----------------------------------------------------------------------------
(* feature_extractor.py: extract_website_features *)

SecurityHeaderNames ==
    { "x-frame-options", "x-xss-protection", "x-content-type-options",
      "strict-transport-security", "content-security-policy" }

ContentLimit == 2000
LinkLimit == 50
LinkMarkers == << "id=", "user=", "admin", "login", "upload" >>

empty_features ==
    << <<"url_analysis", "">>, <<"headers", "">>, <<"content", "">>, <<"technologies", "">>,
       <<"forms", "">>, <<"links", "">>, <<"errors", "">>, <<"security_headers", "">> >>

url_analysis_of(parsed_url) ==
    "domain " \o parsed_url.netloc \o " path " \o parsed_url.path
    \o " query " \o parsed_url.query

headers_of(headers) ==
    Join([i \in 1..Len(headers) |-> Lower(headers[i][1]) \o " " \o Lower(headers[i][2])], " ")

RECURSIVE security_headers_of(_)
security_headers_of(headers) ==
    IF Len(headers) = 0 THEN ""
    ELSE (IF Lower(Head(headers)[1]) \in SecurityHeaderNames
          THEN Head(headers)[1] \o " " \o Head(headers)[2] \o " " ELSE "")
         \o security_headers_of(Tail(headers))

technologies_of(content, headers) ==
    LET lower == Lower(content)
        server == Lower(GetCI(headers, "server", ""))
        powered_by == Lower(GetCI(headers, "x-powered-by", ""))
    IN  Join(  (IF Contains(content, "wp-content") \/ Contains(lower, "wordpress")
                THEN <<"wordpress">> ELSE <<>>)
            \o (IF Contains(lower, "drupal") THEN <<"drupal">> ELSE <<>>)
            \o (IF Contains(lower, "joomla") THEN <<"joomla">> ELSE <<>>)
            \o (IF Contains(lower, "react") THEN <<"react">> ELSE <<>>)
            \o (IF Contains(lower, "angular") THEN <<"angular">> ELSE <<>>)
            \o (IF Contains(lower, "vue") THEN <<"vue">> ELSE <<>>)
            \o (IF server # "" THEN <<"server " \o server>> ELSE <<>>)
            \o (IF powered_by # "" THEN <<"powered-by " \o powered_by>> ELSE <<>>), " ")

forms_of(page) ==
    LET forms == find_all(page, {"form"})
        of(form) ==
            LET inputs == find_in(form, {"input", "textarea"})
            IN  <<"form " \o Lower(Get(form.attrs, "method", "get")) \o " "
                  \o Get(form.attrs, "action", "")>>
                \o [i \in 1..Len(inputs) |->
                      "input " \o Lower(Get(inputs[i].attrs, "type", "text")) \o " "
                      \o Lower(Get(inputs[i].attrs, "name", ""))]
    IN  Join(Concat([i \in 1..Len(forms) |-> of(forms[i])]), " ")

links_of(page) ==
    LET links == SelectSeq(find_all(page, {"a"}), LAMBDA a : HasKey(a.attrs, "href"))
        hrefs == [i \in 1..Len(Take(links, LinkLimit)) |-> Lower(Get(links[i].attrs, "href", ""))]
        kept == SelectSeq(hrefs, LAMBDA href : \E m \in 1..Len(LinkMarkers) :
                                                   Contains(href, LinkMarkers[m]))
    IN  Join([i \in 1..Len(kept) |-> "link " \o kept[i]], " ")

errors_of(content) ==
    Join(Concat([c \in 1..Len(vuln_patterns) |->
                   [i \in 1..Len(PatternFindings(vuln_patterns[c].patterns, Lower(content), "")) |->
                       vuln_patterns[c].vuln_type \o " pattern detected"]]), " ")

connection_error(e) == "connection error " \o e.msg
analysis_error(e) == "analysis error " \o e.msg

\* a variant with the general handler only
extraction_error_general(e) == analysis_error(e)

\* the handler an exception raised in the try block reaches
extraction_error(e) == IF e.request THEN connection_error(e) ELSE analysis_error(e)

\* fetched is the response of session.get or the exception it raised; parsed is
\* the page BeautifulSoup built or the exception it raised
extract_website_features(u, fetched, parsed) ==
    LET parsed_url == urlparse(u)
        f1 == Put(empty_features, "url_analysis", url_analysis_of(parsed_url))
        f2 == Put(Put(f1, "security_headers", security_headers_of(fetched.headers)),
                  "headers", headers_of(fetched.headers))
        content == fetched.text
        f3 == Put(f2, "content", Take(get_text(parsed.page), ContentLimit))
        f4 == Put(f3, "technologies", technologies_of(content, fetched.headers))
        f5 == Put(f4, "forms", forms_of(parsed.page))
        f6 == Put(f5, "links", links_of(parsed.page))
    IN  IF ~parsed_url.ok THEN Put(empty_features, "errors", extraction_error(InvalidIPv6))
        ELSE IF fetched.raised THEN Put(f1, "errors", extraction_error(fetched.exc))
        ELSE IF parsed.raised THEN Put(f2, "errors", extraction_error(parsed.exc))
        ELSE Put(f6, "errors", errors_of(content))

-----------------------------------------------------------------------------
(* The environment of a run: the command line, the local files, the site the    *)
(* URL leads to, and the faults the network can produce.                        *)

\* what the user may type as the url argument
RawUrls == { "example.com", "http://shop.example:8443/cart?id=1", "https://[bad" }

\* main.py: a URL without a scheme gets https://
validate_url(raw) ==
    IF StartsWith(raw, "http://") \/ StartsWith(raw, "https://") THEN raw ELSE "https://" \o raw

\* the state of the model, tokenizer and label-map files
FileStates == { "ok", "missing", "corrupt" }
AllFilesOk == [model |-> "ok", tokenizer |-> "ok", labels |-> "ok"]
FileSets ==
    { f \in [model : FileStates, tokenizer : FileStates, labels : FileStates] :
        Cardinality({k \in {"model", "tokenizer", "labels"} : f[k] # "ok"}) <= 1 }

\* the label map a readable label file holds; indices are 0-based
LoadedLabels ==
    LET names == << "SQL Injection", "XSS", "Broken Authentication", "Buffer Overflow" >>
    IN  [i \in 0..(Len(names) - 1) |-> names[i + 1]]

\* what model.predict may return for the encoded text, in hundredths
ModelOutputs ==
    LET outputs == { <<29, 27, 23, 21>>, <<40, 40, 15, 5>>, <<5, 90, 3, 2>> }
    IN  { [i \in 0..(Len(o) - 1) |-> o[i + 1]] : o \in outputs }

\* datetime.now() during the run
Now == [year |-> 2026, month |-> 11, day |-> 5, hour |-> 12, minute |-> 0, second |-> 0]
Timestamp == "2026-11-05 12:00:00"

Tls(handshake, cert, cipher, version) ==
    [handshake |-> handshake, cert |-> cert, cipher |-> cipher, version |-> version]

ModernCipher == Some(<<"TLS_AES_256_GCM_SHA384", "TLSv1.3", 256>>)

Site(headers, page, tls, echo_forms, echo_page) ==
    [ headers |-> headers, page |-> page, body |-> Render(page), markup |-> "ok",
      tls |-> tls, echo_forms |-> echo_forms, echo_page |-> echo_page ]

PlainSite ==
    Site(<< <<"Server", "nginx/1.18.0">>, <<"X-Frame-Options", "DENY">>,
            <<"Content-Type", "text/html">> >>,
         << El("h1", <<>>, "Welcome", <<>>),
            El("p", <<>>, "Opening hours and directions", <<>>),
            El("a", << <<"href", "/about">> >>, "About", <<>>) >>,
         Tls("ok", Some(<< <<"subject", "CN=example.com">>,
                           <<"notAfter", "Jun  1 12:00:00 2027 GMT">> >>),
             ModernCipher, Some("TLSv1.3")),
         {}, FALSE)

LoginSite ==
    Site(<< <<"Server", "Apache/2.4.41">>, <<"X-Powered-By", "PHP/7.4.3">> >>,
         << El("form", << <<"method", "POST">>, <<"action", "https://login.example/session">> >>, "",
               << El("input", << <<"type", "text">>, <<"name", "User">> >>, "", <<>>),
                  El("input", << <<"type", "password">>, <<"name", "pass">> >>, "", <<>>),
                  El("textarea", << <<"name", "note">> >>, "", <<>>),
                  El("button", << <<"onclick", "check()">> >>, "Sign in", <<>>) >>),
            El("a", << <<"href", "/Admin/login?id=1">> >>, "Admin", <<>>),
            El("p", <<>>, "Warning: mysql_error in query", <<>>) >>,
         Tls("ok", Some(<< <<"notAfter", "Nov 15 13:00:00 2026 GMT">> >>),
             Some(<<"RC4-SHA", "TLSv1.1", 128>>), Some("TLSv1.1")),
         {}, FALSE)

ScriptSite ==
    Site(<< <<"Content-Security-Policy", "default-src 'self'">>,
            <<"Strict-Transport-Security", "max-age=31536000">> >>,
         << El("script", << <<"src", "http://cdn.example/a.js">> >>, "", <<>>),
            El("script", << <<"src", "/static/app.js">> >>, "", <<>>),
            El("script", <<>>, "el.innerHTML = eval(data); document.write(el)", <<>>),
            El("p", <<>>, "Built with React", <<>>) >>,
         Tls("ok", Some(<< <<"subject", "CN=scripts.example">> >>), ModernCipher, Some("TLSv1.2")),
         {}, FALSE)

SearchSite ==
    Site(<< <<"server", "gunicorn">> >>,
         << El("form", << <<"action", "/search">> >>, "",
               << El("input", << <<"type", "search">>, <<"name", "q">> >>, "", <<>>) >>),
            El("a", << <<"href", " JavaScript:history.back()">> >>, "Back", <<>>) >>,
         Tls("ok", Some(<< <<"notAfter", "2027-06-01T12:00:00Z">> >>),
             Some(<<"ECDHE-RSA-RC4-SHA", "TLSv1.0", 128>>), Some("TLSv1")),
         {}, FALSE)

EchoSite ==
    Site(<< <<"Server", "nginx">> >>,
         << El("form", << <<"method", "get">>, <<"action", "https://echo.example/find">> >>, "",
               << El("input", << <<"name", "q">> >>, "", <<>>) >>),
            El("form", << <<"action", "https://echo.example/ping">> >>, "",
               << El("input", << <<"type", "submit">> >>, "", <<>>) >>) >>,
         Tls("ok", None, None, None),
         { "https://echo.example/find" }, TRUE)

\* a body html.parser rejects, behind a certificate the default context refuses
BrokenSite ==
    [ headers |-> << <<"Server", "nginx">> >>, page |-> <<>>, body |-> "<![if", markup |-> "rejected",
      tls |-> Tls("verify_failed", None, None, None), echo_forms |-> {}, echo_page |-> FALSE ]

\* a page behind a certificate that expired five days ago
ExpiredSite ==
    Site(<< <<"Server", "Apache">> >>,
         << El("p", <<>>, "Service status", <<>>) >>,
         Tls("ok", Some(<< <<"notAfter", "Oct 31 12:00:00 2026 GMT">> >>),
             ModernCipher, Some("TLSv1.3")),
         {}, FALSE)

Sites == << PlainSite, LoginSite, ScriptSite, SearchSite, EchoSite, BrokenSite, ExpiredSite >>

ReadTimeout == Exc("requests.exceptions.ReadTimeout", "Read timed out.", TRUE)
ConnectionFailed == Exc("requests.exceptions.ConnectionError", "Connection refused", TRUE)
RequestFaults == { ReadTimeout, ConnectionFailed }

SocketTimeout == Exc("socket.timeout", "timed out", FALSE)
ConnectionRefused == Exc("ConnectionRefusedError", "[Errno 111] Connection refused", FALSE)
SocketFaults == { SocketTimeout, ConnectionRefused }

CertificateVerifyFailed ==
    Exc("ssl.SSLCertVerificationError",
        "[SSL: CERTIFICATE_VERIFY_FAILED] certificate verify failed", FALSE)

CertificateExpired ==
    Exc("ssl.SSLCertVerificationError",
        "[SSL: CERTIFICATE_VERIFY_FAILED] certificate verify failed: certificate has expired",
        FALSE)

ParserRejectedMarkup ==
    Exc("bs4.exceptions.ParserRejectedMarkup", "The markup you provided was rejected by the parser.",
        FALSE)

OSErrorOnMakedirs == Exc("PermissionError", "[Errno 13] Permission denied", FALSE)

\* the faults injected into one run
MaxFaults == 1

\* requests refuses a URL it cannot prepare, before anything is sent
request_error(u) ==
    IF ~Contains(u, "://")
    THEN Some(Exc("requests.exceptions.MissingSchema",
                  "Invalid URL '" \o u \o "': No scheme supplied. Perhaps you meant https://"
                  \o u \o "?", TRUE))
    ELSE IF ~urlparse(u).ok
    THEN Some(Exc("requests.exceptions.InvalidURL", "Failed to parse: " \o u, TRUE))
    ELSE None

Raised(e, sent, injected) == [raised |-> TRUE, exc |-> e, sent |-> sent, injected |-> injected]
Response(headers, body) ==
    [raised |-> FALSE, headers |-> headers, text |-> body, sent |-> TRUE, injected |-> FALSE]

\* the outcomes of one session.get / session.post
Outcomes(u, response, budget) ==
    IF request_error(u) # None THEN { Raised(request_error(u)[1], FALSE, FALSE) }
    ELSE { response } \cup (IF budget > 0 THEN { Raised(e, TRUE, TRUE) : e \in RequestFaults } ELSE {})

\* BeautifulSoup(content, 'html.parser')
soup_of(s) ==
    IF s.markup = "rejected" THEN [raised |-> TRUE, exc |-> ParserRejectedMarkup]
    ELSE [raised |-> FALSE, page |-> s.page]

\* the site's answer to a request that carries the payload
echo_response(s, echoes) ==
    Response(s.headers, IF echoes THEN "<p>No results for " \o test_payload \o "</p>" ELSE s.body)

-----------------------------------------------------------------------------
(* The steps of the probes, as functions of what the network answered *)

\* check_xss up to its loop over the forms: the page is fetched and parsed, the
\* static and the DOM layer run
xss_fetch_step(fetched, parsed) ==
    IF fetched.raised THEN [exc |-> Some(fetched.exc), indicators |-> <<>>]
    ELSE IF parsed.raised THEN [exc |-> Some(parsed.exc), indicators |-> <<>>]
    ELSE [exc |-> None, indicators |-> passive_indicators(fetched.text, parsed.page)]

\* what a test response adds to the indicators
reflection(response, finding) ==
    IF Contains(response.text, test_payload) THEN <<finding>> ELSE <<>>

\* context.wrap_socket under ssl.create_default_context(), which requires a
\* certificate chain that verifies: an untrusted chain and a certificate past its
\* notAfter both fail the handshake
handshake_fault(tls, now) ==
    IF tls.handshake # "ok" THEN Some(CertificateVerifyFailed)
    ELSE IF /\ tls.cert # None
            /\ HasKey(tls.cert[1], "notAfter")
            /\ strptime(Get(tls.cert[1], "notAfter", "")).ok
            /\ Seconds(strptime(Get(tls.cert[1], "notAfter", "")).value) < Seconds(now)
    THEN Some(CertificateExpired)
    ELSE None

\* a variant with the general handler only
ssl_failure_general(e) == ssl_error(e)

\* the except clause an exception raised in check_ssl reaches
ssl_failure(e) == IF e.type = "socket.timeout" THEN SslTimedOut ELSE ssl_error(e)

\* check_ssl: conn is None, or the exception socket.create_connection raised
check_ssl(u, tls, conn, now) ==
    LET parsed_url == urlparse(u)
        failed(e) == [out |-> ssl_failure(e), issues |-> <<>>, early |-> "", exc |-> Some(e)]
    IN  IF ~parsed_url.ok THEN failed(InvalidIPv6)
        ELSE IF conn # None THEN failed(conn[1])
        ELSE IF handshake_fault(tls, now) # None THEN failed(handshake_fault(tls, now)[1])
        ELSE inspect_peer(tls, now) @@ [exc |-> None]

\* the address check_ssl connects to
ssl_target(u) ==
    [host |-> hostname(urlparse(u).netloc), port |-> port_or_default(urlparse(u).netloc)]

check_script_issues(u, fetched, parsed) ==
    IF fetched.raised
    THEN [out |-> script_error(fetched.exc), indicators |-> <<>>, exc |-> Some(fetched.exc)]
    ELSE IF parsed.raised
    THEN [out |-> script_error(parsed.exc), indicators |-> <<>>, exc |-> Some(parsed.exc)]
    ELSE LET found == script_indicators_of(u, fetched.text, parsed.page)
         IN  [out |-> script_summary(found), indicators |-> found, exc |-> None]

\* the exception extract_website_features caught, if any
extraction_exception(u, fetched, parsed) ==
    IF ~urlparse(u).ok THEN Some(InvalidIPv6)
    ELSE IF fetched.raised THEN Some(fetched.exc)
    ELSE IF parsed.raised THEN Some(parsed.exc)
    ELSE None

\* the log after an exception was raised in a function, or after none was
Logged(log, where, exc) ==
    IF exc = None THEN log ELSE Append(log, [in |-> where, exc |-> exc[1]])

\* the log after a request was handed to the network, or refused before
Issued_with_retry(log, by, op, target, data, outcome) ==
    LET request == [by |-> by, op |-> op, target |-> target, data |-> data]
    IN  IF ~outcome.sent THEN log
        ELSE IF outcome.raised THEN log \o <<request, request>>
        ELSE Append(log, request)

Issued(log, by, op, target, data, outcome) ==
    IF outcome.sent
    THEN Append(log, [by |-> by, op |-> op, target |-> target, data |-> data])
    ELSE log

Spent(budget, outcome) == IF outcome.injected THEN budget - 1 ELSE budget

-----------------------------------------------------------------------------
(* models/model_loader.py, csv_saver.py, pdf_saver.py *)

\* load_model_components: the files are read in this order; a missing file
\* ends the process through sys.exit(1), an unreadable one through the
\* except clause's sys.exit(1)
LoadOrder == << "model", "tokenizer", "labels" >>

\* a variant that looks at the model file only
load_model_components_model_only(fs) ==
    IF fs.model = "ok" THEN [exit |-> None, int_to_label |-> LoadedLabels]
    ELSE [exit |-> Some(1), int_to_label |-> <<>>]

load_model_components(fs) ==
    LET bad == {i \in 1..Len(LoadOrder) : fs[LoadOrder[i]] # "ok"}
    IN  IF bad = {} THEN [exit |-> None, int_to_label |-> LoadedLabels]
        ELSE [exit |-> Some(1), int_to_label |-> <<>>]

\* bool(s) of a string
Truthy(s) == s # ""

\* the columns of the main CSV row that are read from result['extracted_features']
csv_row(res) ==
    [ Security_Headers_Present |-> Truthy(Get(res.extracted_features, "security_headers", "")),
      Technologies_Detected |-> Get(res.extracted_features, "technologies", "None"),
      Forms_Found |-> Truthy(Get(res.extracted_features, "forms", "")),
      Recommendations_Count |-> Len(res.recommendations) ]

PdfFieldLimit == 100

\* the technical analysis details of the PDF
pdf_details(res) ==
    LET f == res.extracted_features
    IN  [ technologies |-> Take(Get(f, "technologies", "None"), PdfFieldLimit),
          security_headers |-> IF Truthy(Get(f, "security_headers", "")) THEN "Present" ELSE "Missing",
          forms |-> IF Truthy(Get(f, "forms", "")) THEN "Yes" ELSE "No",
          links |-> IF Truthy(Get(f, "links", "")) THEN "Found" ELSE "None",
          errors |-> Take(Get(f, "errors", "None"), PdfFieldLimit) ]

-----------------------------------------------------------------------------
(* Inputs of the pure functions *)

Absent == "<absent>"

\* the dict holding, in the order of `order`, every slot that `choice` does not leave out
RECURSIVE DictOf(_, _)
DictOf(order, choice) ==
    IF Len(order) = 0 THEN <<>>
    ELSE IF choice[Head(order)] = Absent THEN DictOf(Tail(order), choice)
    ELSE <<<<Head(order), choice[Head(order)]>>>> \o DictOf(Tail(order), choice)

Labels ==
    { "SQL Injection", "XSS", "Cross-Site Scripting", "Broken Access Control",
      "Authentication Bypass", "Buffer Overflow", "CSRF" }

RecSlotOrder ==
    << "headers", "forms", "security_headers", "xss_check", "ssl_check", "script_check" >>

RecSlotValues(k) ==
    CASE k = "security_headers" -> { Absent, "", "X-Frame-Options DENY " }
      [] k = "headers" -> { Absent, "", "server nginx/1.18", "content-type text/html" }
      [] k = "forms" -> { "", "form post /login input text q" }
      [] k = "xss_check" -> { Absent, "No XSS issues detected", "XSS check error: timed out",
                              "Possible XSS risk(s) detected: Pattern detected: javascript:" }
      [] k = "ssl_check" -> { Absent, "No SSL issues detected", "Weak cipher detected: RC4-SHA" }
      [] k = "script_check" -> { Absent, "No script issues detected",
                                 "Mixed content: HTTP script http://cdn.example/a.js" }

RecChoices ==
    { c \in [Keys([i \in 1..Len(RecSlotOrder) |-> <<RecSlotOrder[i], "">>]) ->
                UNION {RecSlotValues(RecSlotOrder[i]) : i \in 1..Len(RecSlotOrder)}] :
        \A i \in 1..Len(RecSlotOrder) : c[RecSlotOrder[i]] \in RecSlotValues(RecSlotOrder[i]) }

EncSlots == { "url_analysis", "headers", "links", "errors", "xss_check" }

EncSlotValues(k) ==
    CASE k = "url_analysis" -> { "", "domain example.com path /upload query file=a" }
      [] k = "headers" -> { "", "content-type text/html" }
      [] k = "links" -> { "", "link /admin/login" }
      [] k = "errors" -> { "", "sql_injection pattern detected" }
      [] k = "xss_check" -> { "No XSS issues detected",
                              "Possible XSS risk(s) detected: javascript: URI detected in anchor tag" }

\* every dict over a subset of EncSlots, in every insertion order
EncInputs ==
    { d \in UNION { [1..n -> UNION { {<<k, v>> : v \in EncSlotValues(k)} : k \in EncSlots }] :
                       n \in 0..Cardinality(EncSlots) } :
        \A i, j \in 1..Len(d) : i # j => d[i][1] # d[j][1] }

\* the same mapping, inserted in the same or in the opposite order
Reorderings(d) == { d, Reverse(d) }

MaxLabels == 4
PredLabels == [i \in 0..(MaxLabels - 1) |-> SubSeq(UpperLetters, i + 1, i + 1)]

\* probabilities in steps of 0.05
ProbValues == {5 * k : k \in 0..20}

RECURSIVE Sum(_)
Sum(p) ==
    IF DOMAIN p = {} THEN 0
    ELSE LET i == Max(DOMAIN p)
         IN  p[i] + Sum([j \in DOMAIN p \ {i} |-> p[j]])

\* the probability vectors over TopK..MaxLabels labels
ProbVectors ==
    UNION { { p \in [0..(n - 1) -> ProbValues] : Sum(p) = 100 } : n \in TopK..MaxLabels }

NoResult == [url |-> ""]

Confidences == 0..100
RiskLabels == { "SQL Injection", "XSS" }
NoCall == [confidence |-> -1, label |-> "", risk |-> ""]

-----------------------------------------------------------------------------
(* Idle values of the variables a specification does not use *)

RecIdle == recommendations = <<>>
RiskIdle == confidence = 0 /\ risk_level = "" /\ prev_call = NoCall
PredIdle ==
    /\ int_to_label = <<>> /\ predictions = <<>> /\ top_3_indices = <<>> /\ result = NoResult
EncIdle ==
    /\ other_features = <<>> /\ combined_text = "" /\ vuln_keywords = <<>>
    /\ text = "" /\ other_text = ""

ProbesIdle ==
    /\ xss_results = "" /\ ssl_results = "" /\ script_results = ""
    /\ indicators = <<>> /\ form_index = 0
    /\ ssl_issues = <<>> /\ ssl_early = "" /\ script_indicators = <<>>
ReportsIdle == csv_report = None /\ pdf_report = None
MainIdle ==
    /\ args = [url |-> ""] /\ site = 1 /\ files = AllFilesOk /\ dir_ok = TRUE
    /\ session = None /\ faults_left = 0
    /\ ProbesIdle
    /\ raised = <<>> /\ net_log = <<>> /\ exit_code = None
    /\ ReportsIdle

-----------------------------------------------------------------------------
(* SpecRec: generate_recommendations applied to every input *)

InitRec ==
    /\ pc = "generate_recommendations"
    /\ \E c \in RecChoices : features = DictOf(RecSlotOrder, c)
    /\ predicted_label \in Labels
    /\ recommendations = <<>>
    /\ RiskIdle
    /\ EncIdle
    /\ PredIdle
    /\ MainIdle

CallGenerateRecommendations ==
    /\ pc = "generate_recommendations"
    /\ recommendations' = generate_recommendations(features, predicted_label)
    /\ pc' = "rec_returned"
    /\ UNCHANGED <<features, predicted_label, riskVars, encVars, predVars, mainVars>>

NextRec == CallGenerateRecommendations

SpecRec == InitRec /\ [][NextRec]_vars

-----------------------------------------------------------------------------
(* SpecRisk: assess_risk_level applied to every pair of inputs *)

InitRisk ==
    /\ pc = "assess_risk_level"
    /\ confidence \in Confidences
    /\ predicted_label \in RiskLabels
    /\ risk_level = ""
    /\ prev_call = NoCall
    /\ features = <<>>
    /\ RecIdle
    /\ EncIdle
    /\ PredIdle
    /\ MainIdle

CallAssessRiskLevel ==
    /\ pc = "assess_risk_level"
    /\ risk_level' = assess_risk_level(confidence, predicted_label)
    /\ pc' = "risk_returned"
    /\ UNCHANGED <<features, predicted_label, recVars, confidence, prev_call, encVars, predVars, mainVars>>

\* the caller's next, independent call
NextAssessment ==
    /\ pc = "risk_returned"
    /\ prev_call = NoCall
    /\ prev_call' = [confidence |-> confidence, label |-> predicted_label, risk |-> risk_level]
    /\ confidence' \in Confidences
    /\ predicted_label' \in RiskLabels
    /\ risk_level' = ""
    /\ pc' = "assess_risk_level"
    /\ UNCHANGED <<features, recVars, encVars, predVars, mainVars>>

NextRisk == CallAssessRiskLevel \/ NextAssessment

SpecRisk == InitRisk /\ [][NextRisk]_vars

-----------------------------------------------------------------------------
(* SpecEnc: features_to_text applied to a dict and then to a reordering of it *)

InitEnc ==
    /\ pc = "features_to_text"
    /\ features \in EncInputs
    /\ other_features \in Reorderings(features)
    /\ combined_text = "" /\ vuln_keywords = <<>> /\ text = "" /\ other_text = ""
    /\ predicted_label = ""
    /\ RecIdle
    /\ RiskIdle
    /\ PredIdle
    /\ MainIdle

CallFeaturesToText ==
    /\ pc = "features_to_text"
    /\ combined_text' = base_text(features)
    /\ vuln_keywords' = hint_phrases(base_text(features))
    /\ text' = features_to_text(features)
    /\ pc' = "enc_returned"
    /\ UNCHANGED <<features, other_features, other_text, predicted_label, recVars, riskVars, predVars, mainVars>>

CallFeaturesToTextAgain ==
    /\ pc = "enc_returned"
    /\ other_text' = features_to_text(other_features)
    /\ pc' = "enc_returned_twice"
    /\ UNCHANGED <<features, other_features, combined_text, vuln_keywords, text,
                   predicted_label, recVars, riskVars, predVars, mainVars>>

NextEnc == CallFeaturesToText \/ CallFeaturesToTextAgain

SpecEnc == InitEnc /\ [][NextEnc]_vars

-----------------------------------------------------------------------------
(* SpecPred: predict_vulnerability's selection applied to every probability vector *)

InitPred ==
    /\ pc = "predict_vulnerability"
    /\ predictions \in ProbVectors
    /\ int_to_label = [i \in DOMAIN predictions |-> PredLabels[i]]
    /\ top_3_indices = <<>>
    /\ result = NoResult
    /\ features = <<>>
    /\ predicted_label = ""
    /\ RecIdle
    /\ RiskIdle
    /\ EncIdle
    /\ MainIdle

CallPredictVulnerability ==
    /\ pc = "predict_vulnerability"
    /\ \E order \in ArgSorts(predictions) :
          /\ top_3_indices' = top_3(order)
          /\ result' = predict_vulnerability("https://example.com", int_to_label,
                                              predictions, order)
    /\ pc' = "pred_returned"
    /\ UNCHANGED <<features, predicted_label, recVars, riskVars, encVars,
                   int_to_label, predictions, mainVars>>

NextPred == CallPredictVulnerability

SpecPred == InitPred /\ [][NextPred]_vars

-----------------------------------------------------------------------------
(* Spec: one run of main() *)

Init ==
    /\ pc = "main"
    /\ args \in {[url |-> raw] : raw \in RawUrls}
    /\ site \in DOMAIN Sites
    /\ files \in FileSets
    /\ dir_ok \in BOOLEAN
    /\ session = None
    /\ faults_left = MaxFaults
    /\ ProbesIdle
    /\ raised = <<>> /\ net_log = <<>> /\ exit_code = None
    /\ ReportsIdle
    /\ features = <<>>
    /\ predicted_label = ""
    /\ RecIdle
    /\ RiskIdle
    /\ EncIdle
    /\ PredIdle

unusedVars == <<predicted_label, recVars, riskVars, other_features, combined_text,
                vuln_keywords, other_text>>

\* main.py 43-44
ValidateUrl ==
    /\ pc = "main"
    /\ args' = [url |-> validate_url(args.url)]
    /\ pc' = "create_output_directory"
    /\ UNCHANGED <<features, text, predVars, envVars, session, probeVars, logVars,
                   exit_code, reportVars, unusedVars>>

\* main.py 51: an exception of os.makedirs is logged, re-raised and ends main with status 1
CreateOutputDirectory ==
    /\ pc = "create_output_directory"
    /\ IF dir_ok
       THEN pc' = "setup_session" /\ UNCHANGED <<raised, exit_code>>
       ELSE /\ raised' = Append(raised, [in |-> "main", exc |-> OSErrorOnMakedirs])
            /\ exit_code' = Some(1)
            /\ pc' = "exited"
    /\ UNCHANGED <<features, text, predVars, args, envVars, session, probeVars,
                   net_log, faults_left, reportVars, unusedVars>>

\* main.py 52: the session is built; nothing is requested
SetupSession ==
    /\ pc = "setup_session"
    /\ session' = Some("requests.Session")
    /\ pc' = "load_model_components"
    /\ UNCHANGED <<features, text, predVars, args, envVars, probeVars, logVars,
                   exit_code, reportVars, unusedVars>>

\* main.py 55-57
LoadModelComponents ==
    /\ pc = "load_model_components"
    /\ LET loaded == load_model_components(files)
       IN  /\ exit_code' = loaded.exit
           /\ int_to_label' = loaded.int_to_label
           /\ pc' = IF loaded.exit = None THEN "check_xss" ELSE "exited"
    /\ UNCHANGED <<features, text, predictions, top_3_indices, result, args, envVars, session,
                   probeVars, logVars, reportVars, unusedVars>>

\* xss_checker.py 10-55: the page fetch, the static and the DOM layer
XssFetch ==
    /\ pc = "check_xss"
    /\ \E fetched \in Outcomes(args.url, Response(Sites[site].headers, Sites[site].body),
                               faults_left) :
          LET step == xss_fetch_step(fetched, soup_of(Sites[site]))
          IN  /\ net_log' = Issued(net_log, "check_xss", "get", args.url, <<>>, fetched)
              /\ faults_left' = Spent(faults_left, fetched)
              /\ raised' = Logged(raised, "check_xss", step.exc)
              /\ indicators' = step.indicators
              /\ IF step.exc = None
                 THEN form_index' = 1 /\ pc' = "xss_forms" /\ UNCHANGED xss_results
                 ELSE /\ xss_results' = xss_error(step.exc[1])
                      /\ pc' = "check_ssl"
                      /\ UNCHANGED form_index
    /\ UNCHANGED <<features, text, predVars, args, envVars, session, ssl_results, script_results,
                   ssl_issues, ssl_early, script_indicators, exit_code, reportVars, unusedVars>>

\* xss_checker.py 60-78: one iteration of the loop over the forms
XssTestForm ==
    /\ pc = "xss_forms"
    /\ form_index <= Len(find_all(Sites[site].page, {"form"}))
    /\ LET request == form_request(find_all(Sites[site].page, {"form"})[form_index], args.url)
       IN  IF request.params = <<>>
           THEN /\ form_index' = form_index + 1
                /\ UNCHANGED <<pc, xss_results, indicators, logVars>>
           ELSE \E answer \in Outcomes(request.url,
                                       echo_response(Sites[site],
                                                     request.url \in Sites[site].echo_forms),
                                       faults_left) :
                   /\ net_log' = Issued(net_log, "check_xss", request.method, request.url,
                                        request.params, answer)
                   /\ faults_left' = Spent(faults_left, answer)
                   /\ IF answer.raised
                      THEN /\ raised' = Append(raised, [in |-> "check_xss", exc |-> answer.exc])
                           /\ xss_results' = xss_error(answer.exc)
                           /\ pc' = "check_ssl"
                           /\ UNCHANGED <<indicators, form_index>>
                      ELSE /\ indicators' =
                                indicators \o reflection(answer, reflected_in_form(request.url))
                           /\ form_index' = form_index + 1
                           /\ UNCHANGED <<pc, xss_results, raised>>
    /\ UNCHANGED <<features, text, predVars, args, envVars, session, ssl_results, script_results,
                   ssl_issues, ssl_early, script_indicators, exit_code, reportVars, unusedVars>>

\* xss_checker.py 81-94: the q-parameter test and the summary
XssStaticTest ==
    /\ pc = "xss_forms"
    /\ form_index > Len(find_all(Sites[site].page, {"form"}))
    /\ \E answer \in Outcomes(static_test_url(args.url),
                              echo_response(Sites[site], Sites[site].echo_page), faults_left) :
          /\ net_log' = Issued(net_log, "check_xss", "get", static_test_url(args.url), <<>>, answer)
          /\ faults_left' = Spent(faults_left, answer)
          /\ IF answer.raised
             THEN /\ raised' = Append(raised, [in |-> "check_xss", exc |-> answer.exc])
                  /\ xss_results' = xss_error(answer.exc)
                  /\ UNCHANGED indicators
             ELSE /\ indicators' = indicators \o reflection(answer, reflected_in_q)
                  /\ xss_results' \in xss_summaries(indicators')
                  /\ UNCHANGED raised
    /\ pc' = "check_ssl"
    /\ UNCHANGED <<features, text, predVars, args, envVars, session, ssl_results, script_results,
                   form_index, ssl_issues, ssl_early, script_indicators, exit_code, reportVars,
                   unusedVars>>

\* ssl_checker.py 9-59
CheckSsl ==
    /\ pc = "check_ssl"
    /\ \E conn \in {None} \cup (IF faults_left > 0 /\ urlparse(args.url).ok
                                THEN {Some(e) : e \in SocketFaults} ELSE {}) :
          LET checked == check_ssl(args.url, Sites[site].tls, conn, Now)
          IN  /\ ssl_results' = checked.out
              /\ ssl_issues' = checked.issues
              /\ ssl_early' = checked.early
              /\ raised' = Logged(raised, "check_ssl", checked.exc)
              /\ faults_left' = IF conn = None THEN faults_left ELSE faults_left - 1
              /\ net_log' = IF urlparse(args.url).ok
                            THEN Append(net_log,
                                        [by |-> "check_ssl", op |-> "connect",
                                         target |-> ssl_target(args.url).host \o ":"
                                                    \o IntToStr(ssl_target(args.url).port),
                                         data |-> <<>>])
                            ELSE net_log
    /\ pc' = "check_script_issues"
    /\ UNCHANGED <<features, text, predVars, args, envVars, session, xss_results, script_results,
                   indicators, form_index, script_indicators, exit_code, reportVars, unusedVars>>

\* script_issues_checker.py 8-37
CheckScriptIssues ==
    /\ pc = "check_script_issues"
    /\ \E fetched \in Outcomes(args.url, Response(Sites[site].headers, Sites[site].body),
                               faults_left) :
          LET checked == check_script_issues(args.url, fetched, soup_of(Sites[site]))
          IN  /\ script_results' = checked.out
              /\ script_indicators' = checked.indicators
              /\ raised' = Logged(raised, "check_script_issues", checked.exc)
              /\ net_log' = Issued(net_log, "check_script_issues", "get", args.url, <<>>, fetched)
              /\ faults_left' = Spent(faults_left, fetched)
    /\ pc' = "extract_website_features"
    /\ UNCHANGED <<features, text, predVars, args, envVars, session, xss_results, ssl_results,
                   indicators, form_index, ssl_issues, ssl_early, exit_code, reportVars,
                   unusedVars>>

\* main.py 74, feature_extractor.py 32-183
ExtractWebsiteFeatures ==
    /\ pc = "extract_website_features"
    /\ \E fetched \in Outcomes(args.url, Response(Sites[site].headers, Sites[site].body),
                               faults_left) :
          /\ features' = extract_website_features(args.url, fetched, soup_of(Sites[site]))
          /\ raised' = Logged(raised, "extract_website_features",
                              extraction_exception(args.url, fetched, soup_of(Sites[site])))
          /\ net_log' = Issued(net_log, "extract_website_features", "get", args.url, <<>>,
                             fetched)
          /\ faults_left' = Spent(faults_left, fetched)
    /\ pc' = "encode"
    /\ UNCHANGED <<text, predVars, args, envVars, session, probeVars, exit_code, reportVars,
                   unusedVars>>

\* main.py 75-79: the probe outcomes join the features, the features are encoded
IntegrateAndEncode ==
    /\ pc = "encode"
    /\ features' = Put(Put(Put(features, "xss_check", xss_results), "ssl_check", ssl_results),
                       "script_check", script_results)
    /\ text' = features_to_text(features')
    /\ pc' = "predict"
    /\ UNCHANGED <<predVars, mainVars, unusedVars>>

\* main.py 82-84
PredictVulnerability ==
    /\ pc = "predict"
    /\ \E p \in ModelOutputs : \E order \in ArgSorts(p) :
          /\ predictions' = p
          /\ top_3_indices' = top_3(order)
          /\ result' = predict_vulnerability(args.url, int_to_label, p, order)
    /\ pc' = "assess"
    /\ UNCHANGED <<features, text, int_to_label, mainVars, unusedVars>>

\* main.py 87-89
AssessAndRecommend ==
    /\ pc = "assess"
    /\ result' =
          [ risk_level |-> assess_risk_level(result.confidence, result.predicted_vulnerability),
            recommendations |-> generate_recommendations(features, result.predicted_vulnerability),
            analysis_timestamp |-> Timestamp ] @@ result
    /\ pc' = "save_csv"
    /\ UNCHANGED <<features, text, int_to_label, predictions, top_3_indices, mainVars, unusedVars>>

\* main.py 120-126
SaveCsv ==
    /\ pc = "save_csv"
    /\ \E no_csv \in BOOLEAN :
          csv_report' = IF no_csv THEN None ELSE Some(csv_row(result))
    /\ pc' = "save_pdf"
    /\ UNCHANGED <<features, text, predVars, args, envVars, session, probeVars, logVars,
                   exit_code, pdf_report, unusedVars>>

\* main.py 128-145: after the reports main returns and the process ends with status 0
SavePdf ==
    /\ pc = "save_pdf"
    /\ \E no_pdf \in BOOLEAN : \E PDF_AVAILABLE \in BOOLEAN :
          pdf_report' = IF ~no_pdf /\ PDF_AVAILABLE THEN Some(pdf_details(result)) ELSE None
    /\ exit_code' = Some(0)
    /\ pc' = "exited"
    /\ UNCHANGED <<features, text, predVars, args, envVars, session, probeVars, logVars,
                   csv_report, unusedVars>>

Next ==
    \/ ValidateUrl
    \/ CreateOutputDirectory
    \/ SetupSession
    \/ LoadModelComponents
    \/ XssFetch
    \/ XssTestForm
    \/ XssStaticTest
    \/ CheckSsl
    \/ CheckScriptIssues
    \/ ExtractWebsiteFeatures
    \/ IntegrateAndEncode
    \/ PredictVulnerability
    \/ AssessAndRecommend
    \/ SaveCsv
    \/ SavePdf

Spec == Init /\ [][Next]_vars

-----------------------------------------------------------------------------
(* Claims *)

\* case-insensitive containment, an absent slot reading as empty
SlotMentions(f, k, word) == Contains(Lower(Get(f, k, "")), word)
LabelMentions(label, word) == Contains(Lower(label), word)

\* the contributions of rules 1..10, in priority order
RuleContributions(f, label) ==
    << IF Get(f, "security_headers", "") = "" THEN <<RecHeaders>> ELSE <<>>,
       IF SlotMentions(f, "headers", "server") THEN <<RecServer>> ELSE <<>>,
       IF SlotMentions(f, "forms", "form") THEN <<RecForms>> ELSE <<>>,
       IF LabelMentions(label, "injection") \/ LabelMentions(label, "sql")
           THEN RecInjection ELSE <<>>,
       IF LabelMentions(label, "xss") \/ LabelMentions(label, "scripting")
           THEN RecXss ELSE <<>>,
       IF LabelMentions(label, "authentication") \/ LabelMentions(label, "access")
           THEN RecAuth ELSE <<>>,
       IF LabelMentions(label, "buffer") \/ LabelMentions(label, "overflow")
           THEN RecBuffer ELSE <<>>,
       IF SlotMentions(f, "xss_check", "detected") THEN <<RecEscape>> ELSE <<>>,
       IF SlotMentions(f, "ssl_check", "weak") THEN <<RecCiphers>> ELSE <<>>,
       IF SlotMentions(f, "script_check", "mixed content") THEN <<RecHttpsScripts>> ELSE <<>> >>

RECURSIVE Flatten(_)
Flatten(ss) == IF Len(ss) = 0 THEN <<>> ELSE Head(ss) \o Flatten(Tail(ss))

\* C1: generate_recommendations returns exactly the first 5 entries (all of them when
\* fewer) of the concatenation of the contributions of rules 1..10 in priority order;
\* the output never has more than 5 entries; with empty security_headers, headers and
\* forms and label "SQL Injection" the first entry is the header-hardening string and
\* the next three are the injection strings in their listed order.
C1_FirstFiveInRuleOrder ==
    pc = "rec_returned" =>
        LET all == Flatten(RuleContributions(features, predicted_label))
        IN  /\ Len(recommendations) <= 5
            /\ Len(recommendations) = (IF Len(all) < 5 THEN Len(all) ELSE 5)
            /\ \A i \in 1..Len(recommendations) : recommendations[i] = all[i]
            /\ ( /\ Get(features, "security_headers", "") = ""
                 /\ Get(features, "headers", "") = ""
                 /\ Get(features, "forms", "") = ""
                 /\ predicted_label = "SQL Injection" )
               => /\ Len(recommendations) >= 4
                  /\ recommendations[1] = RecHeaders
                  /\ SubSeq(recommendations, 2, 4) = RecInjection

\* the SQL Injection scenario with two probe findings: six strings collected, five returned
C1_Witness ==
    /\ pc = "rec_returned"
    /\ predicted_label = "SQL Injection"
    /\ Get(features, "security_headers", "") = ""
    /\ Get(features, "headers", "") = ""
    /\ Get(features, "forms", "") = ""
    /\ SlotMentions(features, "xss_check", "detected")
    /\ SlotMentions(features, "ssl_check", "weak")
    /\ recommendations = <<RecHeaders>> \o RecInjection \o <<RecEscape>>

RiskRank(r) ==
    CASE r = "LOW" -> 1 [] r = "MEDIUM" -> 2 [] r = "HIGH" -> 3 [] r = "CRITICAL" -> 4

NonEmptyItems(d) == SelectSeq(d, LAMBDA item : item[2] # "")

RECURSIVE SumLen(_)
SumLen(items) ==
    IF Len(items) = 0 THEN 0
    ELSE Len(Head(items)[1]) + 1 + Len(Head(items)[2]) + SumLen(Tail(items))

\* C3: features_to_text leaves the record unchanged and is deterministic (a second
\* call on an identical record returns identical text); the base text is exactly the
\* single-space join of "<slot-name> <slot-value>" over the slots whose value is
\* non-empty, an empty slot contributing nothing, not even a separator.
C3_DeterministicBaseText ==
    /\ [][(pc \in {"features_to_text", "enc_returned"})
            => (features' = features /\ other_features' = other_features)]_vars
    /\ [](pc \in {"enc_returned", "enc_returned_twice"} =>
            LET items == NonEmptyItems(features)
                rendered == [i \in 1..Len(items) |-> items[i][1] \o " " \o items[i][2]]
            IN  /\ combined_text = Join(rendered, " ")
                /\ Len(combined_text)
                      = SumLen(items) + (IF Len(items) = 0 THEN 0 ELSE Len(items) - 1)
                /\ StartsWith(text, combined_text))
    /\ [](pc = "enc_returned_twice" /\ other_features = features => other_text = text)

\* a record with an empty slot between two non-empty ones, encoded twice
C3_Witness ==
    /\ pc = "enc_returned_twice"
    /\ other_features = features
    /\ Len(features) = 3
    /\ features[1][2] # "" /\ features[2][2] = "" /\ features[3][2] # ""
    /\ other_text = text
    /\ combined_text = features[1][1] \o " " \o features[1][2] \o " "
                        \o features[3][1] \o " " \o features[3][2]

SameMapping(d, e) ==
    /\ Keys(d) = Keys(e)
    /\ \A k \in Keys(d) : Get(d, k, "") = Get(e, k, "")

\* C4: the order in which features_to_text renders the slots is fixed and does not
\* depend on insertion order: two records holding the same slot-to-value mapping,
\* built by inserting the slots in a different order, are encoded to the same text.
C4_InsertionOrderIrrelevant ==
    pc = "enc_returned_twice" /\ SameMapping(features, other_features)
        => other_text = text

HintPhrasePosition(phrase) ==
    CHOOSE i \in 1..Len(HintClusters) : HintClusters[i].phrase = phrase

\* C5: after the base text, each of the four hint phrases is appended at most once, in
\* the order database-injection, cross-site-scripting, file-inclusion,
\* authentication-bypass; a phrase is appended iff some keyword of its cluster occurs
\* in the lower-cased base text, however many do; nothing is appended when none does.
C5_HintsOnceInOrder ==
    pc \in {"enc_returned", "enc_returned_twice"} =>
        LET low == Lower(combined_text)
            appended(p) == \E i \in 1..Len(vuln_keywords) : vuln_keywords[i] = p
        IN  /\ \A i \in 1..Len(vuln_keywords) :
                  \E c \in 1..Len(HintClusters) : vuln_keywords[i] = HintClusters[c].phrase
            /\ \A i, j \in 1..Len(vuln_keywords) :
                  i < j => HintPhrasePosition(vuln_keywords[i])
                             < HintPhrasePosition(vuln_keywords[j])
            /\ appended("database injection vulnerability")
                  = (\E w \in {"sql", "database", "mysql", "error"} : Contains(low, w))
            /\ appended("cross site scripting vulnerability")
                  = (\E w \in {"script", "javascript", "xss"} : Contains(low, w))
            /\ appended("file inclusion vulnerability")
                  = (\E w \in {"upload", "file", "path"} : Contains(low, w))
            /\ appended("authentication bypass vulnerability")
                  = (\E w \in {"admin", "login", "authentication"} : Contains(low, w))
            /\ text = (IF Len(vuln_keywords) = 0 THEN combined_text
                       ELSE combined_text \o " " \o Join(vuln_keywords, " "))

\* three keywords of the file cluster and two of the authentication cluster match, and
\* exactly those two phrases are appended, once each
C5_Witness ==
    /\ pc = "enc_returned"
    /\ Contains(Lower(combined_text), "upload")
    /\ Contains(Lower(combined_text), "file")
    /\ Contains(Lower(combined_text), "path")
    /\ Contains(Lower(combined_text), "admin")
    /\ Contains(Lower(combined_text), "login")
    /\ vuln_keywords = <<"file inclusion vulnerability", "authentication bypass vulnerability">>

\* a non-empty base text without any keyword gets no hint
C5_WitnessNoHint ==
    /\ pc = "enc_returned"
    /\ combined_text # ""
    /\ vuln_keywords = <<>>
    /\ text = combined_text

\* C8: for every probability vector with at least three labels, the predicted label is
\* the label of a maximum-probability index and the confidence is that probability; the
\* top-3 list holds three pairs with pairwise distinct label indices, sorted by
\* probability descending, equal probabilities in ascending label index order; for
\* [0.10, 0.05, 0.70, 0.15] over [A, B, C, D] this is C, 0.70, [(C,0.70),(D,0.15),(A,0.10)].
C8_TopThreeTiesAscending ==
    pc = "pred_returned" =>
        /\ \E m \in DOMAIN predictions :
              /\ \A j \in DOMAIN predictions : predictions[j] <= predictions[m]
              /\ result.predicted_vulnerability = int_to_label[m]
              /\ result.confidence = predictions[m]
        /\ Len(top_3_indices) = 3
        /\ Len(result.top_3_predictions) = 3
        /\ \A i \in 1..3 :
              result.top_3_predictions[i]
                  = <<int_to_label[top_3_indices[i]], predictions[top_3_indices[i]]>>
        /\ \A i, j \in 1..3 : i # j => top_3_indices[i] # top_3_indices[j]
        /\ \A i, j \in 1..3 : i < j =>
              \/ predictions[top_3_indices[i]] > predictions[top_3_indices[j]]
              \/ /\ predictions[top_3_indices[i]] = predictions[top_3_indices[j]]
                 /\ top_3_indices[i] < top_3_indices[j]
        /\ predictions = (0 :> 10 @@ 1 :> 5 @@ 2 :> 70 @@ 3 :> 15) =>
              /\ result.predicted_vulnerability = "C"
              /\ result.confidence = 70
              /\ result.top_3_predictions = << <<"C", 70>>, <<"D", 15>>, <<"A", 10>> >>

\* the part of C8 that does not speak of ties: the predicted label and confidence are
\* those of the first maximum, and the top-3 are three distinct indices holding the three
\* largest probabilities in descending order
C8_TopThreeDescending ==
    pc = "pred_returned" =>
        /\ result.predicted_vulnerability = int_to_label[argmax(predictions)]
        /\ result.confidence = Max({predictions[j] : j \in DOMAIN predictions})
        /\ Len(top_3_indices) = 3
        /\ \A i, j \in 1..3 : i # j => top_3_indices[i] # top_3_indices[j]
        /\ \A i, j \in 1..3 : i < j =>
              predictions[top_3_indices[i]] >= predictions[top_3_indices[j]]
        /\ \A k \in DOMAIN predictions :
              (\A i \in 1..3 : top_3_indices[i] # k)
                  => predictions[k] <= predictions[top_3_indices[3]]
        /\ predictions = (0 :> 10 @@ 1 :> 5 @@ 2 :> 70 @@ 3 :> 15) =>
              result.top_3_predictions = << <<"C", 70>>, <<"D", 15>>, <<"A", 10>> >>

\* the positions of main() in the order a run passes them
MainOrder ==
    << "main", "create_output_directory", "setup_session", "load_model_components",
       "check_xss", "xss_forms", "check_ssl", "check_script_issues",
       "extract_website_features", "encode", "predict", "assess", "save_csv", "save_pdf" >>

\* the run has got past the given position
Past(position) ==
    \/ pc = "exited" /\ exit_code = Some(0)
    \/ \E i, j \in DOMAIN MainOrder : MainOrder[i] = position /\ MainOrder[j] = pc /\ i < j

ProbePositions == { "check_xss", "xss_forms", "check_ssl", "check_script_issues" }

\* an exception was raised inside the given function
FaultIn(where) == \E i \in DOMAIN raised : raised[i].in = where

\* C6: each of check_xss, check_ssl and check_script_issues returns a non-empty string
\* and hands control back to main whatever fault occurs inside it (a step of a probe
\* never ends the process, and every exception raised in a probe is answered with that
\* probe's diagnostic); a probe that met no fault and collected no finding returns its
\* 'no issues detected' sentinel, and a probe that collected a finding does not return
\* the sentinel.  For check_ssl the certificate faults (no certificate, no expiry
\* field, unparsable expiry date) count as faults.
C6_ProbesAlwaysAnswer ==
    /\ [][(pc \in ProbePositions) =>
            (pc' \in ProbePositions \cup {"extract_website_features"} /\ exit_code' = exit_code)]_vars
    /\ [](/\ Past("xss_forms") =>
               /\ xss_results # ""
               /\ FaultIn("check_xss") => StartsWith(xss_results, "XSS check error: ")
               /\ (~FaultIn("check_xss") /\ indicators = <<>>) => xss_results = NoXssIssues
               /\ indicators # <<>> => xss_results # NoXssIssues
          /\ Past("check_ssl") =>
               /\ ssl_results # ""
               /\ FaultIn("check_ssl") =>
                     \/ ssl_results = SslTimedOut
                     \/ StartsWith(ssl_results, "SSL check error: ")
               /\ (~FaultIn("check_ssl") /\ ssl_early = "" /\ ssl_issues = <<>>) =>
                     ssl_results = NoSslIssues
               /\ ssl_issues # <<>> => ssl_results # NoSslIssues
          /\ Past("check_script_issues") =>
               /\ script_results # ""
               /\ FaultIn("check_script_issues") =>
                     StartsWith(script_results, "Script issues check error: ")
               /\ (~FaultIn("check_script_issues") /\ script_indicators = <<>>) =>
                     script_results = NoScriptIssues
               /\ script_indicators # <<>> => script_results # NoScriptIssues)

\* the three probes have returned: one with findings, one after a fault, one with its sentinel
C6_Witness ==
    /\ pc = "extract_website_features"
    /\ indicators # <<>> /\ ~FaultIn("check_xss")
    /\ StartsWith(xss_results, "Possible XSS risk(s) detected: ")
    /\ FaultIn("check_ssl") /\ ssl_results = SslTimedOut
    /\ ~FaultIn("check_script_issues") /\ script_indicators = <<>>
    /\ script_results = NoScriptIssues

PassiveSlots ==
    << "url_analysis", "headers", "content", "technologies", "forms", "links", "errors",
       "security_headers" >>

\* the exception extract_website_features caught in this run
ExtractionFault ==
    raised[CHOOSE i \in DOMAIN raised : raised[i].in = "extract_website_features"].exc

SlotsEmpty(slots) == \A k \in slots : Get(features, k, Absent) = ""

\* C7: extract_website_features returns (it never raises) a record with exactly the eight
\* passive slots; when a step failed, errors holds 'connection error <message>' for a
\* request fault and 'analysis error <message>' for any other, the slots derived before
\* the failing step (url_analysis before the fetch; url_analysis, headers and
\* security_headers before the parse) hold the values derived from the URL and the
\* response, and the slots that needed the failed step are empty.
C7_ExtractorDegrades ==
    pc = "encode" =>
        /\ [i \in DOMAIN features |-> features[i][1]] = PassiveSlots
        /\ \A i \in DOMAIN features : features[i][2] # Absent
        /\ FaultIn("extract_website_features") =>
              LET e == ExtractionFault
                  derived == { "content", "technologies", "forms", "links" }
              IN  /\ Get(features, "errors", "") =
                        (IF e.request THEN "connection error " ELSE "analysis error ") \o e.msg
                  /\ SlotsEmpty(derived)
                  /\ CASE ~urlparse(args.url).ok ->
                            SlotsEmpty({"url_analysis", "headers", "security_headers"})
                       [] urlparse(args.url).ok /\ e.request ->
                            /\ Get(features, "url_analysis", "") =
                                  url_analysis_of(urlparse(args.url))
                            /\ SlotsEmpty({"headers", "security_headers"})
                       [] OTHER ->
                            /\ Get(features, "url_analysis", "") =
                                  url_analysis_of(urlparse(args.url))
                            /\ Get(features, "headers", "") = headers_of(Sites[site].headers)
                            /\ Get(features, "security_headers", "") =
                                  security_headers_of(Sites[site].headers)

\* the passive fetch timed out: the URL analysis is kept, the rest is empty
C7_Witness ==
    /\ pc = "encode"
    /\ FaultIn("extract_website_features")
    /\ ExtractionFault = ReadTimeout
    /\ Get(features, "errors", "") = "connection error Read timed out."
    /\ Get(features, "url_analysis", "") = "domain example.com path  query "
    /\ Get(features, "headers", "") = ""

\* the parse failed after the headers were analysed: the header slots are kept
C7_WitnessParseFault ==
    /\ pc = "encode"
    /\ FaultIn("extract_website_features")
    /\ ExtractionFault = ParserRejectedMarkup
    /\ StartsWith(Get(features, "errors", ""), "analysis error ")
    /\ Get(features, "headers", "") = "server nginx"

AllSlots == Range(PassiveSlots) \cup { "xss_check", "ssl_check", "script_check" }

\* C9: when save_csv_report or save_pdf_report is called, result['extracted_features']
\* holds every one of the eleven slots, and the reports' security-headers, forms and
\* technologies fields are those of the features extracted in this run.
C9_ReportsEmbedFeatures ==
    /\ pc \in {"save_csv", "save_pdf"} => AllSlots \subseteq Keys(result.extracted_features)
    /\ csv_report # None =>
          /\ csv_report[1].Security_Headers_Present = Truthy(Get(features, "security_headers", ""))
          /\ csv_report[1].Forms_Found = Truthy(Get(features, "forms", ""))
          /\ csv_report[1].Technologies_Detected = Get(features, "technologies", "")
    /\ pdf_report # None =>
          /\ pdf_report[1].security_headers = "Present" <=> Truthy(Get(features, "security_headers", ""))
          /\ pdf_report[1].forms = "Yes" <=> Truthy(Get(features, "forms", ""))

\* the run is about to save its reports, all eleven slots are in features, none in the result
C9_EmptyAtSaveTime ==
    /\ pc = "save_csv"
    /\ AllSlots \subseteq Keys(features)
    /\ Truthy(Get(features, "security_headers", ""))
    /\ result.extracted_features = <<>>

\* a run whose model files cannot all be loaded has issued no network operation, has not
\* got past load_model_components, and has ended, if it has ended, with status 1
LoaderFailureContained ==
    files # AllFilesOk =>
        /\ net_log = <<>>
        /\ pc \in { "main", "create_output_directory", "setup_session",
                    "load_model_components", "exited" }
        /\ pc = "exited" => exit_code = Some(1)

\* C10: when the model, the tokenizer or the label-map file is missing or fails to load,
\* the step that loads them ends the process with exit status 1, and at no point of
\* that run has a network operation been issued.
C10_LoaderFailureBeforeNetwork ==
    /\ []LoaderFailureContained
    /\ [][(pc = "load_model_components" /\ files # AllFilesOk) =>
            (pc' = "exited" /\ exit_code' = Some(1) /\ net_log' = <<>>)]_vars

\* the label map is unreadable: the process has ended with status 1 at the loader
C10_Witness ==
    /\ files.labels = "corrupt"
    /\ dir_ok
    /\ session # None
    /\ pc = "exited"
    /\ exit_code = Some(1)
    /\ net_log = <<>>

\* the forms of the page the run analyses
PageForms == find_all(Sites[site].page, {"form"})

\* the names of the form's input and textarea children that have one
NamedFields(form) ==
    { Get(field.attrs, "name", "") :
        field \in { f \in Range(find_in(form, {"input", "textarea"})) : Get(f.attrs, "name", "") # "" } }

\* the probe's q-parameter URL: '?q=' on a URL without a query string, '&q=' otherwise
MarkerUrl == args.url \o (IF urlparse(args.url).query = "" THEN "?q=" ELSE "&q=") \o test_payload

\* C11: when check_xss ran through without a fault, every form with a named input or
\* textarea child was submitted to its action with its declared method (post, otherwise
\* get) and with every named field set to the marker payload, an echoing form is named
\* in a reflected-XSS finding, and the marker was sent once as the q parameter of the
\* original URL, an echo adding the q-parameter finding.
C11_ActiveLayerCoversNamedFields ==
    (Past("xss_forms") /\ ~FaultIn("check_xss")) =>
        /\ \A k \in DOMAIN PageForms :
              LET form == PageForms[k]
                  action == Get(form.attrs, "action", args.url)
                  method == IF Lower(Get(form.attrs, "method", "get")) = "post"
                            THEN "post" ELSE "get"
              IN  NamedFields(form) # {} =>
                     /\ \E i \in DOMAIN net_log :
                           /\ net_log[i].by = "check_xss"
                           /\ net_log[i].op = method
                           /\ net_log[i].target = action
                           /\ Keys(net_log[i].data) = NamedFields(form)
                           /\ \A d \in DOMAIN net_log[i].data :
                                 net_log[i].data[d][2] = test_payload
                     /\ action \in Sites[site].echo_forms =>
                           Contains(xss_results, reflected_in_form(action))
        /\ Cardinality({i \in DOMAIN net_log : net_log[i].target = MarkerUrl}) = 1
        /\ Sites[site].echo_page => Contains(xss_results, reflected_in_q)

\* the same with the named input children only, textarea children left out
C11_ActiveLayerCoversNamedInputs ==
    (Past("xss_forms") /\ ~FaultIn("check_xss")) =>
        /\ \A k \in DOMAIN PageForms :
              LET form == PageForms[k]
                  action == Get(form.attrs, "action", args.url)
                  named == { Get(f.attrs, "name", "") :
                               f \in { g \in Range(find_in(form, {"input"})) :
                                         Get(g.attrs, "name", "") # "" } }
              IN  named # {} =>
                     /\ \E i \in DOMAIN net_log :
                           /\ net_log[i].by = "check_xss"
                           /\ net_log[i].target = action
                           /\ Keys(net_log[i].data) = named
                     /\ action \in Sites[site].echo_forms =>
                           Contains(xss_results, reflected_in_form(action))
        /\ Cardinality({i \in DOMAIN net_log : net_log[i].target = MarkerUrl}) = 1
        /\ Sites[site].echo_page => Contains(xss_results, reflected_in_q)

\* the login form went through the probe: its textarea 'note' was not among the fields sent
C11_TextareaLeftOut ==
    /\ Past("xss_forms") /\ ~FaultIn("check_xss")
    /\ \E i \in DOMAIN net_log :
          /\ net_log[i].op = "post"
          /\ Keys(net_log[i].data) = {"User", "pass"}
    /\ \E k \in DOMAIN PageForms : "note" \in NamedFields(PageForms[k])

\* the exception check_ssl caught in this run
SslFault == raised[CHOOSE i \in DOMAIN raised : raised[i].in = "check_ssl"].exc

\* the certificate the peer of this run presents once the handshake is through
PeerCert == Sites[site].tls.cert

\* which of check_ssl's diagnostics a string is
DiagnosticKind(s) ==
    CASE s = "SSL check timed out (connection took too long)" -> "timed_out"
      [] s = "SSL certificate data unavailable" -> "no_certificate"
      [] s = "SSL certificate expiration data missing" -> "no_expiry"
      [] StartsWith(s, "Invalid expiration date format: ") -> "bad_date"
      [] StartsWith(s, "SSL check error: ") -> "error"
      [] OTHER -> "findings"

NoCipherOrVersionFinding ==
    /\ ~Contains(ssl_results, "Weak cipher detected")
    /\ ~Contains(ssl_results, "Insecure TLS version")

\* C12: check_ssl answers each failure case with its own diagnostic: a connection
\* timeout with the 'timed out' diagnostic, any other exception with 'SSL check error: '
\* and the exception's message, a peer without certificate with 'certificate data
\* unavailable', a certificate without notAfter with 'expiration data missing', an
\* unparsable notAfter with a diagnostic that ends in the unparsable value; none of
\* them carries a cipher or version finding.
C12_DistinctSslDiagnostics ==
    Past("check_ssl") =>
        IF FaultIn("check_ssl")
        THEN /\ SslFault.type = "socket.timeout" => DiagnosticKind(ssl_results) = "timed_out"
             /\ SslFault.type # "socket.timeout" =>
                   /\ DiagnosticKind(ssl_results) = "error"
                   /\ ssl_results = "SSL check error: " \o SslFault.msg
             /\ NoCipherOrVersionFinding
        ELSE /\ PeerCert = None =>
                   DiagnosticKind(ssl_results) = "no_certificate" /\ NoCipherOrVersionFinding
             /\ (PeerCert # None /\ ~HasKey(PeerCert[1], "notAfter")) =>
                   DiagnosticKind(ssl_results) = "no_expiry" /\ NoCipherOrVersionFinding
             /\ (PeerCert # None /\ HasKey(PeerCert[1], "notAfter")
                   /\ ~strptime(Get(PeerCert[1], "notAfter", "")).ok) =>
                   /\ DiagnosticKind(ssl_results) = "bad_date"
                   /\ ssl_results = "Invalid expiration date format: "
                                       \o Get(PeerCert[1], "notAfter", "")
                   /\ NoCipherOrVersionFinding

\* the connection to a peer with a weak cipher and an old protocol version timed out
C12_Witness ==
    /\ Past("check_ssl")
    /\ FaultIn("check_ssl") /\ SslFault.type = "socket.timeout"
    /\ ssl_results = SslTimedOut
    /\ Sites[site].tls.version = Some("TLSv1.1")

\* an unparsable notAfter on a peer that negotiated RC4 and TLSv1
C12_WitnessBadDate ==
    /\ Past("check_ssl")
    /\ ~FaultIn("check_ssl")
    /\ ssl_early = "bad_date"
    /\ Sites[site].tls.version = Some("TLSv1")
    /\ ssl_results = "Invalid expiration date format: 2027-06-01T12:00:00Z"

\* the connection of this run was established and the peer's certificate carries a
\* notAfter that strptime accepts
PeerHasExpiryDate ==
    /\ Past("check_ssl")
    /\ ~(FaultIn("check_ssl") /\ SslFault \in SocketFaults \cup {InvalidIPv6})
    /\ PeerCert # None
    /\ HasKey(PeerCert[1], "notAfter")
    /\ strptime(Get(PeerCert[1], "notAfter", "")).ok

\* whole days from now to the peer's notAfter, negative once it has passed
PeerDaysToExpiry == days_between(strptime(Get(PeerCert[1], "notAfter", "")).value, Now)

\* the findings the statement expects of the peer of this run, in its order
ExpectedSslFindings ==
    LET tls == Sites[site].tls
    IN  (IF PeerDaysToExpiry < 30
         THEN <<"SSL certificate expires in " \o IntToStr(PeerDaysToExpiry) \o " days">>
         ELSE <<>>)
        \o (IF tls.cipher # None
               /\ (Contains(tls.cipher[1][1], "RC4") \/ Contains(tls.cipher[1][1], "3DES"))
            THEN <<"Weak cipher detected: " \o tls.cipher[1][1]>> ELSE <<>>)
        \o (IF tls.version # None /\ tls.version[1] \notin {"TLSv1.2", "TLSv1.3"}
            THEN <<"Insecure TLS version: " \o tls.version[1]>> ELSE <<>>)

ExpiryFindingsAsStated ==
    /\ PeerDaysToExpiry < 30 =>
          Contains(ssl_results, "expires in " \o IntToStr(PeerDaysToExpiry) \o " days")
    /\ PeerDaysToExpiry >= 30 => ~Contains(ssl_results, "expires in")
    /\ ExpectedSslFindings # <<>> => ssl_results = Join(ExpectedSslFindings, " ")

\* C13: for a certificate with N whole days to its notAfter, N negative for a
\* certificate that has already expired, check_ssl's result contains 'expires in N days'
\* when N < 30 and no expiry finding when N >= 30; the findings come in the order
\* expiry, weak cipher, insecure version, joined by one space.
C13_ExpiryFindings == PeerHasExpiryDate => ExpiryFindingsAsStated

\* the same for the peers whose certificate passed the handshake's verification
C13_ExpiryFindingsOfVerifiedPeers ==
    (PeerHasExpiryDate /\ ~FaultIn("check_ssl")) => ExpiryFindingsAsStated

\* the certificate expired five days ago and the probe answers with the handshake's error
C13_ExpiredCertificateIsAnError ==
    /\ PeerHasExpiryDate
    /\ PeerDaysToExpiry = -5
    /\ FaultIn("check_ssl") /\ SslFault = CertificateExpired
    /\ ssl_results = "SSL check error: " \o CertificateExpired.msg
    /\ ~Contains(ssl_results, "expires in")

\* a verified peer with ten days left
C13_ExpiringSoon ==
    /\ PeerHasExpiryDate /\ ~FaultIn("check_ssl")
    /\ PeerDaysToExpiry = 10
    /\ Contains(ssl_results, "SSL certificate expires in 10 days")

\* the src attributes of the script elements of the page served in this run
ScriptSources ==
    LET scripts == SelectSeq(find_all(Sites[site].page, {"script"}),
                             LAMBDA s : HasKey(s.attrs, "src"))
    IN  { Get(scripts[i].attrs, "src", "") : i \in DOMAIN scripts }

\* check_script_issues ran through without an exception
ScriptProbeAnswered == Past("check_script_issues") /\ ~FaultIn("check_script_issues")

\* C14: check_script_issues reports 'Mixed content: HTTP script <src>' for every
\* script whose src starts with 'http:' when the probed URL's scheme is https, and only
\* then: for an http URL the result never holds 'Mixed content', and no other src is
\* reported.
C14_MixedContentOnlyOnHttps ==
    ScriptProbeAnswered =>
        /\ \A src \in ScriptSources :
              Contains(script_results, "Mixed content: HTTP script " \o src)
                  <=> (urlparse(args.url).scheme = "https" /\ StartsWith(src, "http:"))
        /\ urlparse(args.url).scheme = "http" => ~Contains(script_results, "Mixed content")
        /\ Contains(script_results, "Mixed content") =>
              \E src \in ScriptSources : StartsWith(src, "http:")

\* the https page with the script from http://cdn.example/a.js
C14_Witness ==
    /\ ScriptProbeAnswered
    /\ args.url = "https://example.com"
    /\ "http://cdn.example/a.js" \in ScriptSources
    /\ Contains(script_results, "Mixed content: HTTP script http://cdn.example/a.js")

\* the same page probed over http
C14_WitnessHttp ==
    /\ ScriptProbeAnswered
    /\ urlparse(args.url).scheme = "http"
    /\ "http://cdn.example/a.js" \in ScriptSources
    /\ ~Contains(script_results, "Mixed content")

\* the pattern with its literals in lower case: what it matches in any letter case
\* once the text is lower-cased
FoldCase(items) ==
    [k \in DOMAIN items |-> IF items[k].kind = "lit" THEN Lit(Lower(items[k].s)) ELSE items[k]]

\* the body served in this run holds the construct of the pattern in some letter case
ConstructPresent(pattern) == Search(FoldCase(pattern.items), Lower(Sites[site].body))

PatternReported(pattern) ==
    Contains(script_results, "Script issue pattern detected: " \o pattern.src)

\* C15: whenever the fetched body holds the construct of one of the four script
\* patterns (script tag with an absolute http: source, eval(, document.write(,
\* innerHTML assignment) in any letter case, check_script_issues returns a
\* 'Script issue pattern detected' finding for that pattern and not the sentinel.
C15_EveryScriptPatternReported ==
    ScriptProbeAnswered =>
        \A i \in DOMAIN script_patterns :
            ConstructPresent(script_patterns[i]) =>
                PatternReported(script_patterns[i]) /\ script_results # NoScriptIssues

\* the same for the three patterns written in lower case
C15_LowerCasePatternsReported ==
    ScriptProbeAnswered =>
        \A i \in 1..3 :
            ConstructPresent(script_patterns[i]) =>
                PatternReported(script_patterns[i]) /\ script_results # NoScriptIssues

\* the body assigns to innerHTML and the result has no finding for that pattern
C15_InnerHtmlMissed ==
    /\ ScriptProbeAnswered
    /\ Contains(Sites[site].body, "el.innerHTML = eval(data)")
    /\ PatternReported(script_patterns[2])
    /\ ~PatternReported(script_patterns[4])

XssFault == raised[CHOOSE i \in DOMAIN raised : raised[i].in = "check_xss"].exc
ScriptFault == raised[CHOOSE i \in DOMAIN raised : raised[i].in = "check_script_issues"].exc

\* the requests a function has handed to the network so far
RequestsBy(by) == SelectSeq(net_log, LAMBDA r : r.by = by)

\* the page fetches of check_xss, and its q-parameter requests
XssPageFetches ==
    SelectSeq(net_log, LAMBDA r : r.by = "check_xss" /\ r.op = "get" /\ r.target = args.url
                                  /\ r.data = <<>>)
XssStaticTests ==
    SelectSeq(net_log, LAMBDA r : r.by = "check_xss" /\ r.target = static_test_url(args.url))

\* the forms of the page that check_xss submits, as requests
FormSubmissions ==
    LET forms == find_all(Sites[site].page, {"form"})
        requests == [i \in DOMAIN forms |-> form_request(forms[i], args.url)]
    IN  SelectSeq(requests, LAMBDA r : r.params # <<>>)

\* how often a form submission was handed to the network
TimesSubmitted(request) ==
    Len(SelectSeq(net_log, LAMBDA r : /\ r.by = "check_xss" /\ r.op = request.method
                                      /\ r.target = request.url /\ r.data = request.params))

\* the positions of main from the first network operation to the recommendations
AnalysisPositions ==
    ProbePositions \cup { "extract_website_features", "encode", "predict", "assess" }

\* no network operation has been issued more than once; in a run without a fault
\* each has been issued once when its caller has returned
EachOperationOnce ==
    /\ Len(XssPageFetches) <= 1
    /\ Len(XssStaticTests) <= 1
    /\ \A i \in DOMAIN FormSubmissions : TimesSubmitted(FormSubmissions[i]) <= 1
    /\ Len(RequestsBy("check_xss")) <= 2 + Len(FormSubmissions)
    /\ Len(RequestsBy("check_ssl")) <= 1
    /\ Len(RequestsBy("check_script_issues")) <= 1
    /\ Len(RequestsBy("extract_website_features")) <= 1
    /\ (request_error(args.url) = None /\ Past("check_xss")) => Len(XssPageFetches) = 1
    /\ (Past("xss_forms") /\ ~FaultIn("check_xss")) =>
          /\ Len(XssStaticTests) = 1
          /\ \A i \in DOMAIN FormSubmissions : TimesSubmitted(FormSubmissions[i]) = 1
    /\ (urlparse(args.url).ok /\ Past("check_ssl")) => Len(RequestsBy("check_ssl")) = 1
    /\ (request_error(args.url) = None /\ Past("check_script_issues")) =>
          Len(RequestsBy("check_script_issues")) = 1
    /\ (request_error(args.url) = None /\ Past("extract_website_features")) =>
          Len(RequestsBy("extract_website_features")) = 1

\* once the outcomes are integrated, every failure is a diagnostic in its slot
FailuresAreDiagnostics ==
    Past("encode") =>
        /\ FaultIn("check_xss") =>
              Get(features, "xss_check", "") = "XSS check error: " \o XssFault.msg
        /\ FaultIn("check_ssl") =>
              Get(features, "ssl_check", "") =
                  (IF SslFault.type = "socket.timeout"
                   THEN "SSL check timed out (connection took too long)"
                   ELSE "SSL check error: " \o SslFault.msg)
        /\ FaultIn("check_script_issues") =>
              Get(features, "script_check", "") = "Script issues check error: " \o ScriptFault.msg
        /\ FaultIn("extract_website_features") =>
              Get(features, "errors", "") =
                  (IF ExtractionFault.request THEN "connection error " ELSE "analysis error ")
                      \o ExtractionFault.msg

\* C16: within one run every network operation (the passive fetch, the XSS probe's page
\* fetch, each form submission, the q-parameter request, the TLS connection, the script
\* fetch) is issued once and never again after a failure; a failure becomes a diagnostic
\* string in the slot concerned and does not end the run: from the first probe to the
\* recommendations every step leads to the next position of main, never to the exit.
C16_OnceAndNeverAborting ==
    /\ [](EachOperationOnce /\ FailuresAreDiagnostics)
    /\ [](Past("assess") =>
             (text # "" /\ result.risk_level # "" /\ Len(result.recommendations) > 0))
    /\ [][(pc \in AnalysisPositions) =>
            (/\ pc' \in AnalysisPositions \cup {"save_csv"}
             /\ exit_code' = exit_code
             /\ Len(net_log') <= Len(net_log) + 1)]_vars

\* the script fetch timed out: it was issued once, the slot holds the diagnostic and
\* the run has its risk level and recommendations
C16_Witness ==
    /\ pc = "save_csv"
    /\ FaultIn("check_script_issues") /\ ScriptFault = ReadTimeout
    /\ Len(RequestsBy("check_script_issues")) = 1
    /\ Len(RequestsBy("extract_website_features")) = 1
    /\ Get(features, "script_check", "") = "Script issues check error: " \o ReadTimeout.msg
    /\ text # ""
    /\ result.risk_level # ""
    /\ Len(result.recommendations) > 0

ActiveProbes == { "check_xss", "check_ssl", "check_script_issues" }

\* every request of an active probe comes after the passive extraction's fetch
PassiveFetchFirst ==
    \A i \in DOMAIN net_log :
        net_log[i].by \in ActiveProbes =>
            \E j \in 1..(i - 1) : net_log[j].by = "extract_website_features"

\* the four network steps are over when the encoder runs, the encoder has run when
\* the classifier runs, the classifier when the risk scorer and the recommendation
\* engine run
EncoderToRecommendationsInOrder ==
    /\ text # "" =>
          /\ Past("extract_website_features")
          /\ xss_results # "" /\ ssl_results # "" /\ script_results # ""
          /\ features # <<>>
    /\ predictions # <<>> => text # ""
    /\ "risk_level" \in DOMAIN result =>
          predictions # <<>> /\ "recommendations" \in DOMAIN result
    /\ [][/\ Len(net_log') > Len(net_log) => text = ""
          /\ text' # text => predictions = <<>>
          /\ predictions' # predictions => "risk_level" \notin DOMAIN result]_vars

\* C17: in every run that reaches classification the passive extraction's page fetch
\* comes before any request of the XSS, TLS and script probes, all four are over before
\* the encoder runs, the encoder runs before the classifier, and the classifier before
\* the risk scorer and the recommendation engine.
C17_PipelineOrder == []PassiveFetchFirst /\ EncoderToRecommendationsInOrder

\* the part of the order from the encoder on
C17_OrderFromEncoderOn == EncoderToRecommendationsInOrder

\* the run has reached classification; the XSS probe's fetch was the first request and
\* the passive extraction's fetch the last
C17_ProbesRanFirst ==
    /\ pc = "predict"
    /\ Len(net_log) >= 4
    /\ net_log[1].by = "check_xss"
    /\ net_log[Len(net_log)].by = "extract_website_features"
    /\ \A i \in 1..(Len(net_log) - 1) : net_log[i].by \in ActiveProbes

\* the XSS probe's outcome in the record reports at least one finding
XssFindingReported == StartsWith(Get(features, "xss_check", ""), "Possible XSS risk(s) detected: ")

EscapeRecommended == \E i \in DOMAIN recommendations : recommendations[i] = RecEscape

\* C18: generate_recommendations contributes "Escape all user-generated content to
\* prevent XSS" only when the XSS probe reported at least one finding; with the
\* sentinel 'No XSS issues detected' or an 'XSS check error' diagnostic in xss_check
\* the returned list does not hold it.
C18_EscapeOnlyOnFinding ==
    pc = "rec_returned" => (EscapeRecommended => XssFindingReported)

\* the same without the sentinel: an absent outcome or an error diagnostic
C18_EscapeNotOnErrorOrAbsent ==
    (pc = "rec_returned" /\ Get(features, "xss_check", "") # NoXssIssues) =>
        (EscapeRecommended => XssFindingReported)

\* the probe found nothing and the escaping recommendation is returned
C18_EscapeOnSentinel ==
    /\ pc = "rec_returned"
    /\ Get(features, "xss_check", "") = "No XSS issues detected"
    /\ EscapeRecommended

TriggerWords ==
    UNION { {HintClusters[i].words[j] : j \in DOMAIN HintClusters[i].words} :
            i \in DOMAIN HintClusters }

HintPhrases == { HintClusters[i].phrase : i \in DOMAIN HintClusters }

MentionsTrigger(s) == \E w \in TriggerWords : Contains(Lower(s), w)

\* neither the URL nor the headers nor the body served holds a trigger keyword, every
\* probe returned its sentinel without a fault and the extractor met no error
CleanSite ==
    /\ Past("encode")
    /\ raised = <<>>
    /\ ~MentionsTrigger(args.url)
    /\ \A i \in DOMAIN Sites[site].headers :
          ~MentionsTrigger(Sites[site].headers[i][1]) /\ ~MentionsTrigger(Sites[site].headers[i][2])
    /\ ~MentionsTrigger(Sites[site].body)
    /\ xss_results = "No XSS issues detected"
    /\ ssl_results = "No SSL issues detected"
    /\ script_results = "No script issues detected"
    /\ Get(features, "errors", "") = ""

\* C19: in the orchestrated pipeline the hint phrases reflect the site and not the
\* record's slot names: for a site whose URL, headers and body hold no trigger keyword,
\* whose probes all returned their sentinel and whose errors slot is empty, the text
\* handed to the classifier carries no hint phrase.
C19_NoHintForCleanSite ==
    CleanSite => \A phrase \in HintPhrases : ~Contains(text, phrase)

\* the clean site's text carries two hint phrases, brought in by the slot names
\* xss_check and script_check, the sentinels and the word 'path' of url_analysis
C19_CleanSiteHinted ==
    /\ CleanSite
    /\ args.url = "https://example.com"
    /\ Get(features, "url_analysis", "") = "domain example.com path  query "
    /\ Contains(text, "cross site scripting vulnerability")
    /\ Contains(text, "file inclusion vulnerability")
    /\ ~Contains(text, "database injection vulnerability")

\* the page was fetched and parsed, the static and the DOM layer ran, and then a form
\* submission or the q-parameter request of check_xss failed
ActiveRequestFailed ==
    /\ Past("xss_forms")
    /\ FaultIn("check_xss")
    /\ form_index >= 1

\* the request that failed was the submission of a form
FormSubmissionFailed ==
    ActiveRequestFailed /\ form_index <= Len(find_all(Sites[site].page, {"form"}))

\* C20: the findings check_xss collected before a form submission or the q-parameter
\* request failed (timeout, connection error, invalid action URL) are part of the
\* returned outcome, and after a failed form submission the remaining forms and the
\* q-parameter test are still attempted.
C20_FindingsSurviveLaterFault ==
    /\ ActiveRequestFailed => \A i \in DOMAIN indicators : Contains(xss_results, indicators[i])
    /\ FormSubmissionFailed => Len(XssStaticTests) = 1

\* the answer on a failure of the active layer is the error diagnostic alone
C20_FaultReplacesFindings ==
    ActiveRequestFailed => xss_results = "XSS check error: " \o XssFault.msg

\* findings were collected, the form submission timed out: the outcome is the
\* diagnostic alone and the q-parameter request was never issued
C20_FindingsLost ==
    /\ ActiveRequestFailed
    /\ XssFault = ReadTimeout
    /\ Len(indicators) >= 1
    /\ \A i \in DOMAIN indicators : ~Contains(xss_results, indicators[i])
    /\ FormSubmissions # <<>>
    /\ TimesSubmitted(FormSubmissions[1]) = 1
    /\ XssStaticTests = <<>>

-----------------------------------------------------------------------------
(* SpecRuns: the pipeline up to the classifier input, run twice against a site  *)
(* that answers every request the same way both times, with no fault            *)

\* the indicators after the loop over the forms from form i on, or the exception a
\* submission raised
RECURSIVE test_forms(_, _, _, _, _)
test_forms(u, s, forms, i, found) ==
    IF i > Len(forms) THEN [exc |-> None, indicators |-> found]
    ELSE LET request == form_request(forms[i], u)
         IN  IF request.params = <<>> THEN test_forms(u, s, forms, i + 1, found)
             ELSE IF request_error(request.url) # None
             THEN [exc |-> request_error(request.url), indicators |-> found]
             ELSE test_forms(u, s, forms, i + 1,
                             found \o reflection(echo_response(s, request.url \in s.echo_forms),
                                                 reflected_in_form(request.url)))

\* check_xss against a site whose requests all get their answer: the strings it can
\* return
check_xss(u, s) ==
    LET fetched == Response(s.headers, s.body)
        step == xss_fetch_step(fetched, soup_of(s))
        tested == test_forms(u, s, find_all(s.page, {"form"}), 1, step.indicators)
        found == tested.indicators
                 \o reflection(echo_response(s, s.echo_page), reflected_in_q)
    IN  IF request_error(u) # None THEN { xss_error(request_error(u)[1]) }
        ELSE IF step.exc # None THEN { xss_error(step.exc[1]) }
        ELSE IF tested.exc # None THEN { xss_error(tested.exc[1]) }
        ELSE xss_summaries(found)

\* main.py 60-77: the record main hands to features_to_text, given what check_xss
\* returned
integrated_features(u, s, xss_outcome) ==
    LET fetched == IF request_error(u) # None THEN Raised(request_error(u)[1], FALSE, FALSE)
                   ELSE Response(s.headers, s.body)
    IN  Put(Put(Put(extract_website_features(u, fetched, soup_of(s)),
                    "xss_check", xss_outcome),
                "ssl_check", check_ssl(u, s.tls, None, Now).out),
            "script_check", check_script_issues(u, fetched, soup_of(s)).out)

InitRuns ==
    /\ pc = "first_run"
    /\ args \in {[url |-> validate_url(raw)] : raw \in RawUrls}
    /\ site \in DOMAIN Sites
    /\ files = AllFilesOk /\ dir_ok = TRUE /\ session = None /\ faults_left = 0
    /\ ProbesIdle
    /\ raised = <<>> /\ net_log = <<>> /\ exit_code = None
    /\ ReportsIdle
    /\ features = <<>>
    /\ predicted_label = ""
    /\ RecIdle
    /\ RiskIdle
    /\ EncIdle
    /\ PredIdle

\* the first run, up to the text handed to the classifier
FirstRun ==
    /\ pc = "first_run"
    /\ \E outcome \in check_xss(args.url, Sites[site]) :
          /\ xss_results' = outcome
          /\ features' = integrated_features(args.url, Sites[site], outcome)
    /\ text' = features_to_text(features')
    /\ pc' = "second_run"
    /\ UNCHANGED <<predicted_label, recVars, riskVars, other_features, combined_text,
                   vuln_keywords, other_text, predVars, args, envVars, session, ssl_results,
                   script_results, indicators, form_index, ssl_issues, ssl_early,
                   script_indicators, logVars, exit_code, reportVars>>

\* the second run, in a new process, against the same answers
SecondRun ==
    /\ pc = "second_run"
    /\ \E outcome \in check_xss(args.url, Sites[site]) :
          other_features' = integrated_features(args.url, Sites[site], outcome)
    /\ other_text' = features_to_text(other_features')
    /\ pc' = "both_returned"
    /\ UNCHANGED <<features, predicted_label, recVars, riskVars, combined_text, vuln_keywords,
                   text, predVars, mainVars>>

NextRuns == FirstRun \/ SecondRun

SpecRuns == InitRuns /\ [][NextRuns]_vars

\* in a run of main that met no fault, check_xss returned one of the strings of
\* check_xss above
XssOutcomeAsInRuns ==
    (Past("xss_forms") /\ faults_left = MaxFaults) =>
        xss_results \in check_xss(args.url, Sites[site])

\* the findings joined in an xss_check outcome
FindingsIn(outcome) ==
    IF StartsWith(outcome, "Possible XSS risk(s) detected: ")
    THEN LET listed == SubSeq(outcome, Len("Possible XSS risk(s) detected: ") + 1, Len(outcome))
             RECURSIVE Split(_, _)
             Split(s, i) ==
                 IF i > Len(s) - 1 THEN <<s>>
                 ELSE IF SubSeq(s, i, i + 1) = "; "
                 THEN <<SubSeq(s, 1, i - 1)>> \o Split(SubSeq(s, i + 2, Len(s)), 1)
                 ELSE Split(s, i + 1)
         IN  Split(listed, 1)
    ELSE <<>>

DistinctFindings(outcome) == { FindingsIn(outcome)[i] : i \in DOMAIN FindingsIn(outcome) }

\* C21: the pipeline up to the classifier input is deterministic in the site's
\* responses: two runs against a site that answers identical requests identically
\* give the same xss_check string, also when two or more distinct findings are
\* joined, and so the same encoded text.
C21_TwoRunsSameText ==
    pc = "both_returned" =>
        /\ Get(features, "xss_check", "") = Get(other_features, "xss_check", "")
        /\ text = other_text

\* what the two runs do share: every slot but xss_check, and the set of findings;
\* with fewer than two distinct findings the two texts are the same
C21_TwoRunsSameFindings ==
    pc = "both_returned" =>
        /\ \A k \in Keys(features) \cup Keys(other_features) :
              k # "xss_check" => Get(features, k, "") = Get(other_features, k, "")
        /\ DistinctFindings(Get(features, "xss_check", ""))
              = DistinctFindings(Get(other_features, "xss_check", ""))
        /\ Len(Get(features, "xss_check", "")) = Len(Get(other_features, "xss_check", ""))
        /\ Cardinality(DistinctFindings(xss_results)) < 2 => text = other_text

\* two runs against the same answers: the same findings, two or more of them, joined
\* in different orders, and two different texts for the classifier
C21_OrderDiffers ==
    /\ pc = "both_returned"
    /\ Cardinality(DistinctFindings(xss_results)) >= 2
    /\ DistinctFindings(Get(other_features, "xss_check", "")) = DistinctFindings(xss_results)
    /\ Get(other_features, "xss_check", "") # xss_results
    /\ text # other_text

====
